---- MODULE Spec2Model ----
(***************************************************************************)
(* Model of affs-read: the sequential FileReader (src/src/file.rs) and the *)
(* directory iterator DirIter (src/src/dir.rs) over an abstract block      *)
(* device.                                                                 *)
(*                                                                         *)
(* A 512-byte block is represented by the big-endian words the readers     *)
(* look at, named by their byte offset (w0 = type tag, w8, w12, w16,       *)
(* w20 = checksum word, tbl = the 72 words at 24..311, w324 = 0x144,       *)
(* w496 = 0x1F0, w504 = 0x1F8, w508 = 0x1FC), by `others`, the wrapping    *)
(* sum of every word but the checksum word, and by `id`, which stands for  *)
(* the identity of the block's bytes: byte k of the block with id b is     *)
(* the pair (b, k).  A copy of `len` bytes from offset `off` of the block  *)
(* buffer is the segment <<id, off, len>>.                                 *)
(*                                                                         *)
(* A 32-bit word is held as its two's-complement value                     *)
(* (-2^31 .. 2^31-1); an unsigned comparison of two words is u32_lt, and   *)
(* 32-bit wrapping arithmetic is done on 16-bit halves.  Sizes, offsets    *)
(* and block numbers of the images stay below 2^31, where the unsigned     *)
(* value of a word is the word.                                            *)
(***************************************************************************)
EXTENDS Integers, Sequences, FiniteSets, TLC

VARIABLES image, reader, last, shadow, sync, clean, gpos, ops,
          dimage, diter, dlast, yielded, dops, call

vars == <<image, reader, last, shadow, sync, clean, gpos, ops,
          dimage, diter, dlast, yielded, dops, call>>

fvars == <<image, reader, last, shadow, sync, clean, gpos, ops>>

dvars == <<dimage, diter, dlast, yielded, dops>>

\* `call` holds the inputs and the result of a call of one of the functions
\* that keep no state between calls
pvars == <<call>>

(***************************************************************************)
(* Program constants                                                       *)
(***************************************************************************)
HALF == 256 * 256

I32_MIN == -2147483647 - 1

BLOCK_SIZE == 512

HASH_TABLE_SIZE == 72

MAX_NAME_LEN == 30

BOOT_BLOCK_SIZE == 1024

DOSFS_INTL == 2

MAX_DATABLK == 72

OFS_DATA_SIZE == 488

FFS_DATA_SIZE == 512

HEADER_SIZE == 24

T_HEADER == 2

T_DATA == 8

T_LIST == 16

ST_ROOT == 1

ST_DIR == 2

ST_LSOFT == 3

ST_LDIR == 4

ST_FILE == -3

ST_LFILE == -4

(***************************************************************************)
(* Bounds of the exploration                                               *)
(***************************************************************************)
MaxOps == 3

MaxDirOps == 7

LoopFuel == 128

MaxNameLen == 2

MaxChain == 8

MaxSumOps == 2

MaxBootOps == 1

MaxPathLen == 4

Min(a, b) == IF a <= b THEN a ELSE b

\* Body applied to the value of v, v being evaluated once
Bind(v, Body(_)) == CHOOSE y \in {Body(x) : x \in {v}} : TRUE

NoFail == 0 - 1

NoId == 0 - 1

(***************************************************************************)
(* Blocks and the block codecs (src/src/block.rs, src/src/checksum.rs)     *)
(***************************************************************************)
ZeroTable == [i \in 0..(MAX_DATABLK - 1) |-> 0]

\* [0u8; BLOCK_SIZE]
ZeroBuf ==
  [id |-> NoId, w0 |-> 0, w8 |-> 0, w12 |-> 0, w16 |-> 0, w20 |-> 0,
   others |-> 0, tbl |-> ZeroTable, w324 |-> 0, b432 |-> 0, name |-> <<>>,
   w496 |-> 0, w504 |-> 0, w508 |-> 0]

\* u32::wrapping_add on two's-complement values
wrapping_add(a, b) ==
  Bind(<<a, b>>, LAMBDA w :
    LET lo == (w[1] % HALF) + (w[2] % HALF)
        hi == (w[1] \div HALF) + (w[2] \div HALF) + (lo \div HALF)
    IN (((hi + HALF \div 2) % HALF) - HALF \div 2) * HALF + (lo % HALF))

\* i32::wrapping_neg
wrapping_neg(a) == IF a = I32_MIN THEN a ELSE -a

\* a < b for two words read as u32
u32_lt(a, b) ==
  IF (a < 0) = (b < 0) THEN a < b ELSE b < 0

\* normal_sum(buf, 20): two's-complement negation of the wrapping sum of
\* every word except the checksum word
normal_sum(b) == wrapping_neg(b.others)

Ok(v) == [tag |-> "Ok", n |-> v, e |-> ""]

Err(x) == [tag |-> "Err", n |-> 0, e |-> x]

Panic == [tag |-> "Panic", n |-> 0, e |-> ""]

\* the byte at offset 0x1B0 + i of a block: the name length byte, then the
\* name bytes, then zeros
NameByte(b, i) ==
  IF i = 0 THEN b.b432 ELSE IF i <= Len(b.name) THEN b.name[i] ELSE 0

\* EntryBlock::parse: type tag first, then checksum; `name` is what
\* EntryBlock::name() returns, the first min(buf[0x1B0], 30) name bytes
EntryBlock_parse(b) ==
  IF b.w0 # T_HEADER THEN [err |-> "InvalidBlockType"]
  ELSE IF b.w20 # normal_sum(b) THEN [err |-> "ChecksumMismatch"]
  ELSE [err |-> "", high_seq |-> b.w8, first_data |-> b.w16,
        hash_table |-> b.tbl, byte_size |-> b.w324,
        name |-> [i \in 1..Min(b.b432, MAX_NAME_LEN) |-> NameByte(b, i)],
        next_same_hash |-> b.w496, extension |-> b.w504,
        sec_type |-> b.w508]

\* RootBlock::parse that looks at the checksum before the secondary type;
\* C23 does not hold of it
RootBlock_parse_sum_first(b) ==
  IF b.w0 # T_HEADER THEN [err |-> "InvalidBlockType"]
  ELSE IF b.w20 # normal_sum(b) THEN [err |-> "ChecksumMismatch"]
  ELSE IF b.w508 # ST_ROOT THEN [err |-> "InvalidSecType"]
  ELSE [err |-> "", hash_table |-> b.tbl]

\* RootBlock::parse: type tag, then secondary type, then checksum
RootBlock_parse(b) ==
  IF b.w0 # T_HEADER THEN [err |-> "InvalidBlockType"]
  ELSE IF b.w508 # ST_ROOT THEN [err |-> "InvalidSecType"]
  ELSE IF b.w20 # normal_sum(b) THEN [err |-> "ChecksumMismatch"]
  ELSE [err |-> "", hash_table |-> b.tbl]

\* the disk name RootBlock::parse takes from the offset 0x1B0
RootBlock_disk_name(b) ==
  [i \in 1..Min(b.b432, MAX_NAME_LEN) |-> NameByte(b, i)]

\* FileExtBlock::parse
FileExtBlock_parse(b) ==
  IF b.w0 # T_LIST THEN [err |-> "InvalidBlockType"]
  ELSE IF b.w20 # normal_sum(b) THEN [err |-> "ChecksumMismatch"]
  ELSE [err |-> "", high_seq |-> b.w8, data_blocks |-> b.tbl,
        extension |-> b.w504]

\* OfsDataBlock::parse
OfsDataBlock_parse(b) ==
  IF b.w0 # T_DATA THEN [err |-> "InvalidBlockType"]
  ELSE IF b.w20 # normal_sum(b) THEN [err |-> "ChecksumMismatch"]
  ELSE [err |-> "", seq_num |-> b.w8, data_size |-> b.w12,
        next_data |-> b.w16]

\* EntryBlock::is_file
is_file(e) == e.sec_type = ST_FILE \/ e.sec_type = ST_LFILE

\* EntryType::from_sec_type(..).is_some()
entry_type_known(sec) == sec \in {ST_ROOT, ST_DIR, ST_FILE, ST_LFILE, ST_LDIR, ST_LSOFT}

(***************************************************************************)
(* Buffers word by word: a 512-byte buffer is the function from 0..127 to  *)
(* its big-endian words.                                                   *)
(***************************************************************************)
\* the wrapping sum of the words lo..hi of w without the word `skip`
RECURSIVE SumSkip(_, _, _, _)
SumSkip(w, skip, lo, hi) ==
  IF lo = hi THEN (IF lo = skip THEN 0 ELSE w[lo])
  ELSE wrapping_add(SumSkip(w, skip, lo, (lo + hi) \div 2),
                    SumSkip(w, skip, (lo + hi) \div 2 + 1, hi))

\* normal_sum_slice_scalar that adds the checksum word as well; C17 does
\* not hold of it
normal_sum_slice_no_skip(buf, checksum_offset) ==
  wrapping_neg(SumSkip(buf, 0 - 1, 0, BLOCK_SIZE \div 4 - 1))

\* normal_sum_slice_scalar
normal_sum_slice_scalar(buf, checksum_offset) ==
  wrapping_neg(SumSkip(buf, checksum_offset \div 4, 0, BLOCK_SIZE \div 4 - 1))

\* byte k (0 the most significant) of a word
WordByte(x, k) ==
  IF k = 0 THEN (x \div 16777216) % 256
  ELSE IF k = 1 THEN (x \div 65536) % 256
  ELSE IF k = 2 THEN (x \div 256) % 256
  ELSE x % 256

\* the fields the parsers read from the buffer w (read_i32_be, read_u32_be
\* at the offsets of block.rs)
ToBlock(w) ==
  [id |-> NoId, w0 |-> w[0], w8 |-> w[2], w12 |-> w[3], w16 |-> w[4],
   w20 |-> w[5], others |-> SumSkip(w, 5, 0, BLOCK_SIZE \div 4 - 1),
   tbl |-> [i \in 0..(MAX_DATABLK - 1) |-> w[6 + i]], w324 |-> w[81],
   b432 |-> WordByte(w[108], 0),
   name |-> [i \in 1..(MAX_NAME_LEN + 1) |->
               WordByte(w[108 + i \div 4], i % 4)],
   w496 |-> w[124], w504 |-> w[126], w508 |-> w[127]]

(***************************************************************************)
(* Name hashing and comparison (src/src/block.rs).  A name is a sequence   *)
(* of bytes 0..255.                                                        *)
(***************************************************************************)
\* ascii_to_upper: an ASCII byte loses bit 5 when it is a lowercase letter
ascii_to_upper(c) ==
  IF c < 128
  THEN c - (IF c >= 97 /\ c <= 122 THEN ((c \div 32) % 2) * 32 ELSE 0)
  ELSE c

\* intl_to_upper that folds the division sign 247 too; C15 does not hold of
\* it
intl_to_upper_with_247(c) ==
  IF (c >= 97 /\ c <= 122) \/ (c >= 224 /\ c <= 254)
  THEN (c + 256 - 32) % 256
  ELSE c

\* intl_to_upper: u8::wrapping_sub(32) for a..z and 224..254 except 247
intl_to_upper(c) ==
  IF (c >= 97 /\ c <= 122) \/ (c >= 224 /\ c <= 254 /\ c # 247)
  THEN (c + 256 - 32) % 256
  ELSE c

\* the loop of hash_name from byte i on; the products stay far below 2^32,
\* where wrapping_mul and wrapping_add are the plain operations, and
\* `& 0x7FF` is the remainder modulo 2048
RECURSIVE hash_loop(_, _, _, _)
hash_loop(name, intl, i, hash) ==
  IF i > Len(name) THEN hash
  ELSE LET upper == IF intl THEN intl_to_upper(name[i])
                    ELSE ascii_to_upper(name[i])
       IN hash_loop(name, intl, i + 1, (hash * 13 + upper) % 2048)

\* hash_name
hash_name(name, intl) ==
  hash_loop(name, intl, 1, Len(name)) % HASH_TABLE_SIZE

\* names_equal that uses the international fold in both modes; C14 does
\* not hold of it
names_equal_always_intl(a, b, intl) ==
  IF Len(a) # Len(b) THEN FALSE
  ELSE IF Len(a) = 0 THEN TRUE
  ELSE \A i \in 1..Len(a) : intl_to_upper(a[i]) = intl_to_upper(b[i])

\* names_equal that folds the bytes of its first argument only; C16 does
\* not hold of it
names_equal_one_sided(a, b, intl) ==
  IF Len(a) # Len(b) THEN FALSE
  ELSE IF Len(a) = 0 THEN TRUE
  ELSE IF intl
  THEN \A i \in 1..Len(a) : intl_to_upper(a[i]) = b[i]
  ELSE \A i \in 1..Len(a) : ascii_to_upper(a[i]) = b[i]

\* names_equal
names_equal(a, b, intl) ==
  IF Len(a) # Len(b) THEN FALSE
  ELSE IF Len(a) = 0 THEN TRUE
  ELSE IF intl
  THEN \A i \in 1..Len(a) : intl_to_upper(a[i]) = intl_to_upper(b[i])
  ELSE \A i \in 1..Len(a) : ascii_to_upper(a[i]) = ascii_to_upper(b[i])

(***************************************************************************)
(* The block device: read_block(block, buf) fails for a block outside the  *)
(* image and for the block `fb` that is unreadable during the call; a      *)
(* failed read leaves the buffer as it was.                                *)
(***************************************************************************)
read_block(img, fb, b) ==
  IF b \in DOMAIN img.blocks /\ b # fb
  THEN [ok |-> TRUE, blk |-> img.blocks[b]]
  ELSE [ok |-> FALSE, blk |-> ZeroBuf]

(***************************************************************************)
(* FileReader (src/src/file.rs)                                            *)
(***************************************************************************)
\* the struct literal shared by FileReader::new and FileReader::from_entry
reader_of(fs, hb, entry, buf) ==
  [fs_type |-> fs, header_block |-> hb, file_size |-> entry.byte_size,
   remaining |-> entry.byte_size, block_index |-> 0,
   initial_blocks_in_header |-> entry.high_seq,
   blocks_in_current |-> entry.high_seq, index_in_current |-> 0,
   initial_data_blocks |-> entry.hash_table,
   data_blocks |-> entry.hash_table,
   initial_extension |-> entry.extension,
   next_extension |-> entry.extension,
   initial_first_data |-> entry.first_data,
   current_data_block |-> entry.first_data, offset_in_block |-> 0,
   buf |-> buf]

\* FileReader::new: reads the header block, keeps it in buf
FileReader_new(img, fb) ==
  LET d == read_block(img, fb, img.hdr)
      e == EntryBlock_parse(d.blk)
  IN IF ~d.ok THEN [err |-> "BlockReadError"]
     ELSE IF e.err # "" THEN [err |-> e.err]
     ELSE IF ~is_file(e) THEN [err |-> "NotAFile"]
     ELSE [err |-> "", r |-> reader_of(img.fs, img.hdr, e, d.blk)]

\* FileReader::from_entry: the entry is already parsed, buf is zeroed
FileReader_from_entry(img, entry) ==
  IF ~is_file(entry) THEN [err |-> "NotAFile"]
  ELSE [err |-> "", r |-> reader_of(img.fs, img.hdr, entry, ZeroBuf)]

remaining(r) == r.remaining

is_eof(r) == r.remaining = 0

size(r) == r.file_size

\* FileReader::position: u32 subtraction
position(r) == r.file_size - r.remaining

\* reset that forgets to rewind index_in_current; C7 does not hold of it
reset_keeps_index(r) ==
  [r EXCEPT !.remaining = r.file_size, !.block_index = 0,
            !.blocks_in_current = r.initial_blocks_in_header,
            !.data_blocks = r.initial_data_blocks,
            !.next_extension = r.initial_extension,
            !.current_data_block = r.initial_first_data,
            !.offset_in_block = 0]

\* FileReader::reset
reset(r) ==
  [r EXCEPT !.remaining = r.file_size, !.block_index = 0,
            !.blocks_in_current = r.initial_blocks_in_header,
            !.index_in_current = 0, !.data_blocks = r.initial_data_blocks,
            !.next_extension = r.initial_extension,
            !.current_data_block = r.initial_first_data,
            !.offset_in_block = 0]

data_block_size(r) == IF r.fs_type = "Ofs" THEN OFS_DATA_SIZE ELSE FFS_DATA_SIZE

data_offset(r) == IF r.fs_type = "Ofs" THEN HEADER_SIZE ELSE 0

\* FileReader::current_block_data_size
current_block_data_size(r) ==
  IF r.fs_type = "Ofs"
  THEN LET header == OfsDataBlock_parse(r.buf)
       IN IF header.err = "" THEN header.data_size ELSE 0
  ELSE Min(r.remaining + r.offset_in_block, FFS_DATA_SIZE)

\* FileReader::get_next_ofs_block
get_next_ofs_block(r) ==
  IF r.block_index = 0
  THEN [r |-> r, err |-> "", val |-> r.current_data_block, reads |-> 0]
  ELSE LET header == OfsDataBlock_parse(r.buf)
       IN IF header.err # ""
          THEN [r |-> r, err |-> header.err, val |-> 0, reads |-> 0]
          ELSE [r |-> [r EXCEPT !.current_data_block = header.next_data],
                err |-> "", val |-> header.next_data, reads |-> 0]

\* ffs_pick reading the pointer table in forward order; C2 does not hold
\* of it
ffs_pick_forward(r, reads) ==
  IF ~u32_lt(r.index_in_current, r.blocks_in_current)
  THEN [r |-> r, err |-> "", val |-> 0, reads |-> reads]
  ELSE LET idx == r.index_in_current
           block == IF idx < MAX_DATABLK THEN r.data_blocks[idx] ELSE 0
       IN [r |-> [r EXCEPT !.index_in_current = idx + 1],
           err |-> "", val |-> block, reads |-> reads]

\* the tail of get_next_ffs_block, after the optional extension load
ffs_pick(r, reads) ==
  IF ~u32_lt(r.index_in_current, r.blocks_in_current)
  THEN [r |-> r, err |-> "", val |-> 0, reads |-> reads]
  ELSE LET idx == r.index_in_current
           block == IF idx < MAX_DATABLK
                    THEN r.data_blocks[MAX_DATABLK - 1 - idx] ELSE 0
       IN [r |-> [r EXCEPT !.index_in_current = idx + 1],
           err |-> "", val |-> block, reads |-> reads]

\* FileReader::get_next_ffs_block
get_next_ffs_block(img, fb, r) ==
  IF ~u32_lt(r.index_in_current, r.blocks_in_current)
  THEN IF r.next_extension = 0
       THEN [r |-> r, err |-> "", val |-> 0, reads |-> 0]
       ELSE LET d == read_block(img, fb, r.next_extension)
                r1 == [r EXCEPT !.buf = d.blk]
                ext == FileExtBlock_parse(d.blk)
            IN IF ~d.ok
               THEN [r |-> r, err |-> "BlockReadError", val |-> 0, reads |-> 1]
               ELSE IF ext.err # ""
               THEN [r |-> r1, err |-> ext.err, val |-> 0, reads |-> 1]
               ELSE ffs_pick([r1 EXCEPT !.data_blocks = ext.data_blocks,
                                        !.blocks_in_current = ext.high_seq,
                                        !.next_extension = ext.extension,
                                        !.index_in_current = 0], 1)
  ELSE ffs_pick(r, 0)

\* FileReader::get_next_data_block
get_next_data_block(img, fb, r) ==
  IF r.fs_type = "Ofs" THEN get_next_ofs_block(r)
  ELSE get_next_ffs_block(img, fb, r)

\* FileReader::read_next_data_block
read_next_data_block(img, fb, r) ==
  Bind(get_next_data_block(img, fb, r), LAMBDA g :
  LET d == read_block(img, fb, g.val)
      r1 == [g.r EXCEPT !.buf = d.blk]
  IN IF g.err # "" THEN [r |-> g.r, err |-> g.err, reads |-> g.reads]
     ELSE IF g.val = 0 THEN [r |-> g.r, err |-> "EndOfFile", reads |-> g.reads]
     ELSE IF ~d.ok
     THEN [r |-> g.r, err |-> "BlockReadError", reads |-> g.reads + 1]
     ELSE IF r.fs_type = "Ofs" /\ OfsDataBlock_parse(d.blk).err # ""
     THEN [r |-> r1, err |-> OfsDataBlock_parse(d.blk).err,
           reads |-> g.reads + 1]
     ELSE [r |-> [r1 EXCEPT !.offset_in_block = 0,
                            !.block_index = r1.block_index + 1],
           err |-> "", reads |-> g.reads + 1])

\* while-loop driver: applies the loop body Step to the loop state until
\* the body reports `done`, at most k times
RECURSIVE Iter(_, _, _)
Iter(Step(_), s, k) ==
  IF k = 0 \/ s.done THEN s
  ELSE IF k = 1 THEN Step(s)
  ELSE CHOOSE y \in {Iter(Step, m, k - k \div 2) :
                       m \in {Iter(Step, s, k \div 2)}} : TRUE

Fuel == [tag |-> "Fuel", n |-> 0, e |-> ""]

Finish(s) ==
  Bind(s, LAMBDA t :
    [r |-> t.r, res |-> IF t.done THEN t.res ELSE Fuel, out |-> t.out,
     reads |-> t.reads])

Start(r) ==
  [r |-> r, total |-> 0, out |-> <<>>, reads |-> 0, res |-> Ok(0),
   done |-> FALSE]

Done(s, r, res, out, reads) ==
  [s EXCEPT !.r = r, !.res = res, !.out = out, !.reads = reads,
            !.done = TRUE]

\* an iteration that goes on when nothing can be copied; C29 does not hold
\* of it
read_step_no_break(img, fb, s, n) ==
  LET r == s.r
  IN IF ~(s.total < n /\ r.remaining > 0)
     THEN Done(s, r, Ok(s.total), s.out, s.reads)
     ELSE
       Bind(IF r.offset_in_block = 0
               \/ r.offset_in_block >= data_block_size(r)
            THEN read_next_data_block(img, fb, r)
            ELSE [r |-> r, err |-> "", reads |-> 0], LAMBDA ld :
       LET r1 == ld.r
           data_size == current_block_data_size(r1)
           available == IF data_size >= r1.offset_in_block
                        THEN data_size - r1.offset_in_block ELSE 0
           to_read == Min(Min(available, n - s.total), r1.remaining)
           start == data_offset(r1) + r1.offset_in_block
       IN IF ld.err # ""
          THEN Done(s, r1, Err(ld.err), s.out, s.reads + ld.reads)
          ELSE IF start + to_read > BLOCK_SIZE
          THEN Done(s, r1, Panic, s.out, s.reads + ld.reads)
          ELSE [s EXCEPT
                  !.r = [r1 EXCEPT
                           !.offset_in_block = r1.offset_in_block + to_read,
                           !.remaining = r1.remaining - to_read],
                  !.total = s.total + to_read,
                  !.out = IF to_read = 0 THEN s.out
                          ELSE Append(s.out, <<r1.buf.id, start, to_read>>),
                  !.reads = s.reads + ld.reads])

\* an iteration that copies what the block holds even when the file has fewer
\* bytes left; C30 does not hold of it
read_step_past_remaining(img, fb, s, n) ==
  LET r == s.r
  IN IF ~(s.total < n /\ r.remaining > 0)
     THEN Done(s, r, Ok(s.total), s.out, s.reads)
     ELSE
       Bind(IF r.offset_in_block = 0
               \/ r.offset_in_block >= data_block_size(r)
            THEN read_next_data_block(img, fb, r)
            ELSE [r |-> r, err |-> "", reads |-> 0], LAMBDA ld :
       LET r1 == ld.r
           data_size == current_block_data_size(r1)
           available == IF data_size >= r1.offset_in_block
                        THEN data_size - r1.offset_in_block ELSE 0
           to_read == Min(available, n - s.total)
           start == data_offset(r1) + r1.offset_in_block
       IN IF ld.err # ""
          THEN Done(s, r1, Err(ld.err), s.out, s.reads + ld.reads)
          ELSE IF to_read = 0
          THEN Done(s, r1, Ok(s.total), s.out, s.reads + ld.reads)
          ELSE IF start + to_read > BLOCK_SIZE
          THEN Done(s, r1, Panic, s.out, s.reads + ld.reads)
          ELSE [s EXCEPT
                  !.r = [r1 EXCEPT
                           !.offset_in_block = r1.offset_in_block + to_read,
                           !.remaining = r1.remaining - to_read],
                  !.total = s.total + to_read,
                  !.out = Append(s.out, <<r1.buf.id, start, to_read>>),
                  !.reads = s.reads + ld.reads])

\* one iteration of the loop of FileReader::read; s.total is total_read,
\* s.out the segments copied into the caller's buffer so far, s.reads the
\* device reads so far
read_step(img, fb, s, n) ==
  LET r == s.r
  IN IF ~(s.total < n /\ r.remaining > 0)
     THEN Done(s, r, Ok(s.total), s.out, s.reads)
     ELSE
       Bind(IF r.offset_in_block = 0
               \/ r.offset_in_block >= data_block_size(r)
            THEN read_next_data_block(img, fb, r)
            ELSE [r |-> r, err |-> "", reads |-> 0], LAMBDA ld :
       LET r1 == ld.r
           data_size == current_block_data_size(r1)
           available == IF data_size >= r1.offset_in_block
                        THEN data_size - r1.offset_in_block ELSE 0
           to_read == Min(Min(available, n - s.total), r1.remaining)
           start == data_offset(r1) + r1.offset_in_block
       IN IF ld.err # ""
          THEN Done(s, r1, Err(ld.err), s.out, s.reads + ld.reads)
          ELSE IF to_read = 0
          THEN Done(s, r1, Ok(s.total), s.out, s.reads + ld.reads)
          ELSE IF start + to_read > BLOCK_SIZE
          THEN Done(s, r1, Panic, s.out, s.reads + ld.reads)
          ELSE [s EXCEPT
                  !.r = [r1 EXCEPT
                           !.offset_in_block = r1.offset_in_block + to_read,
                           !.remaining = r1.remaining - to_read],
                  !.total = s.total + to_read,
                  !.out = Append(s.out, <<r1.buf.id, start, to_read>>),
                  !.reads = s.reads + ld.reads])

\* FileReader::read(out) with out.len() = n
read(img, fb, r, n) ==
  IF r.remaining = 0 \/ n = 0
  THEN [r |-> r, res |-> Ok(0), out |-> <<>>, reads |-> 0]
  ELSE Finish(Iter(LAMBDA s : read_step(img, fb, s, n), Start(r), LoopFuel))

\* one iteration of the loop of FileReader::read_all
read_all_step(img, fb, s, n) ==
  IF ~(s.r.remaining > 0)
  THEN Done(s, s.r, Ok(s.total), s.out, s.reads)
  ELSE Bind(read(img, fb, s.r, n - s.total), LAMBDA c :
          IF c.res.tag # "Ok"
          THEN Done(s, c.r, c.res, s.out \o c.out, s.reads + c.reads)
          ELSE IF c.res.n = 0
          THEN Done(s, c.r, Ok(s.total), s.out, s.reads + c.reads)
          ELSE [s EXCEPT !.r = c.r, !.total = s.total + c.res.n,
                         !.out = s.out \o c.out,
                         !.reads = s.reads + c.reads])

\* FileReader::read_all(out) with out.len() = n
read_all(img, fb, r, n) ==
  IF n < r.remaining
  THEN [r |-> r, res |-> Err("BufferTooSmall"), out |-> <<>>, reads |-> 0]
  ELSE Finish(Iter(LAMBDA s : read_all_step(img, fb, s, n), Start(r),
                   LoopFuel))

\* one iteration of the skip loop of FileReader::seek; s.total is to_skip
seek_step(img, fb, s) ==
  IF ~(s.total > 0)
  THEN Done(s, s.r, Ok(0), <<>>, s.reads)
  ELSE Bind(read(img, fb, s.r, Min(s.total, 512)), LAMBDA c :
          IF c.res.tag # "Ok"
          THEN Done(s, c.r, c.res, <<>>, s.reads + c.reads)
          ELSE IF c.res.n = 0
          THEN Done(s, c.r, Err("EndOfFile"), <<>>, s.reads + c.reads)
          ELSE [s EXCEPT !.r = c.r, !.total = s.total - c.res.n,
                         !.reads = s.reads + c.reads])

\* seek without the test of the position against the file size; C6 does
\* not hold of it
seek_unchecked(img, fb, r, pos) ==
  IF pos = position(r)
  THEN [r |-> r, res |-> Ok(0), out |-> <<>>, reads |-> 0]
  ELSE LET r1 == IF pos < position(r) THEN reset(r) ELSE r
       IN Finish(Iter(LAMBDA s : seek_step(img, fb, s),
                      [Start(r1) EXCEPT !.total = pos - position(r1)],
                      LoopFuel))

\* FileReader::seek(position)
seek(img, fb, r, pos) ==
  IF pos > r.file_size
  THEN [r |-> r, res |-> Err("EndOfFile"), out |-> <<>>, reads |-> 0]
  ELSE IF pos = position(r)
  THEN [r |-> r, res |-> Ok(0), out |-> <<>>, reads |-> 0]
  ELSE LET r1 == IF pos < position(r) THEN reset(r) ELSE r
       IN Finish(Iter(LAMBDA s : seek_step(img, fb, s),
                      [Start(r1) EXCEPT !.total = pos - position(r1)],
                      LoopFuel))

(***************************************************************************)
(* DirIter (src/src/dir.rs)                                                *)
(***************************************************************************)
\* the items of the iterator: None, Some(Ok(entry)), Some(Err(e))
None == [tag |-> "None", block |-> 0, entry_type |-> 0, e |-> ""]

Some_Ok(de) ==
  [tag |-> "Ok", block |-> de.block, entry_type |-> de.entry_type, e |-> ""]

Some_Err(x) == [tag |-> "Err", block |-> 0, entry_type |-> 0, e |-> x]

\* DirEntry::from_entry_block: None for an unrecognized secondary type
from_entry_block(block_num, entry) ==
  IF ~entry_type_known(entry.sec_type)
  THEN [some |-> FALSE, block |-> 0, entry_type |-> 0]
  ELSE [some |-> TRUE, block |-> block_num, entry_type |-> entry.sec_type]

\* DirIter::new
DirIter_new(hash_table, intl) ==
  [hash_table |-> hash_table, hash_index |-> 0, current_chain |-> 0,
   intl |-> intl, buf |-> ZeroBuf]

\* one iteration of the inner loop of DirIter::next, which looks for the
\* next non-empty hash slot
scan_step(s) ==
  LET it == s.it
  IN IF ~(it.hash_index < HASH_TABLE_SIZE) THEN [s EXCEPT !.done = TRUE]
     ELSE LET block == it.hash_table[it.hash_index]
              it1 == [it EXCEPT !.hash_index = it.hash_index + 1]
          IN IF block # 0
             THEN [it |-> [it1 EXCEPT !.current_chain = block], done |-> TRUE]
             ELSE [it |-> it1, done |-> FALSE]

\* next_step that drops the rest of the chain after yielding an entry; C9
\* does not hold of it
next_step_drops_chain(img, fb, s) ==
  LET it == s.it
  IN IF it.current_chain # 0
     THEN LET d == read_block(img, fb, it.current_chain)
              it1 == [it EXCEPT !.buf = d.blk]
              entry == EntryBlock_parse(d.blk)
              dir_entry == from_entry_block(it.current_chain, entry)
          IN IF ~d.ok
             THEN [it |-> it, res |-> Some_Err("BlockReadError"),
                   done |-> TRUE, reads |-> s.reads + 1]
             ELSE IF entry.err # ""
             THEN [it |-> it1, res |-> Some_Err(entry.err), done |-> TRUE,
                   reads |-> s.reads + 1]
             ELSE IF dir_entry.some
             THEN [it |-> [it1 EXCEPT !.current_chain = 0],
                   res |-> Some_Ok(dir_entry), done |-> TRUE,
                   reads |-> s.reads + 1]
             ELSE [it |-> [it1 EXCEPT !.current_chain = entry.next_same_hash],
                   res |-> s.res, done |-> FALSE, reads |-> s.reads + 1]
     ELSE Bind(Iter(scan_step, [it |-> it, done |-> FALSE],
                    HASH_TABLE_SIZE + 1).it, LAMBDA sc :
             IF sc.current_chain = 0
             THEN [it |-> sc, res |-> None, done |-> TRUE, reads |-> s.reads]
             ELSE [it |-> sc, res |-> s.res, done |-> FALSE,
                   reads |-> s.reads])

\* next_step that yields Err(InvalidSecType) for an entry with an
\* unrecognized secondary type; C12 does not hold of it
next_step_reports_unknown(img, fb, s) ==
  LET it == s.it
  IN IF it.current_chain # 0
     THEN LET d == read_block(img, fb, it.current_chain)
              it1 == [it EXCEPT !.buf = d.blk]
              entry == EntryBlock_parse(d.blk)
              dir_entry == from_entry_block(it.current_chain, entry)
          IN IF ~d.ok
             THEN [it |-> it, res |-> Some_Err("BlockReadError"),
                   done |-> TRUE, reads |-> s.reads + 1]
             ELSE IF entry.err # ""
             THEN [it |-> it1, res |-> Some_Err(entry.err), done |-> TRUE,
                   reads |-> s.reads + 1]
             ELSE IF dir_entry.some
             THEN [it |-> [it1 EXCEPT !.current_chain = entry.next_same_hash],
                   res |-> Some_Ok(dir_entry), done |-> TRUE,
                   reads |-> s.reads + 1]
             ELSE [it |-> [it1 EXCEPT !.current_chain = entry.next_same_hash],
                   res |-> Some_Err("InvalidSecType"), done |-> TRUE,
                   reads |-> s.reads + 1]
     ELSE Bind(Iter(scan_step, [it |-> it, done |-> FALSE],
                    HASH_TABLE_SIZE + 1).it, LAMBDA sc :
             IF sc.current_chain = 0
             THEN [it |-> sc, res |-> None, done |-> TRUE, reads |-> s.reads]
             ELSE [it |-> sc, res |-> s.res, done |-> FALSE,
                   reads |-> s.reads])

\* one iteration of the outer loop of DirIter::next
next_step(img, fb, s) ==
  LET it == s.it
  IN IF it.current_chain # 0
     THEN LET d == read_block(img, fb, it.current_chain)
              it1 == [it EXCEPT !.buf = d.blk]
              entry == EntryBlock_parse(d.blk)
              dir_entry == from_entry_block(it.current_chain, entry)
          IN IF ~d.ok
             THEN [it |-> it, res |-> Some_Err("BlockReadError"),
                   done |-> TRUE, reads |-> s.reads + 1]
             ELSE IF entry.err # ""
             THEN [it |-> it1, res |-> Some_Err(entry.err), done |-> TRUE,
                   reads |-> s.reads + 1]
             ELSE IF dir_entry.some
             THEN [it |-> [it1 EXCEPT !.current_chain = entry.next_same_hash],
                   res |-> Some_Ok(dir_entry), done |-> TRUE,
                   reads |-> s.reads + 1]
             ELSE [it |-> [it1 EXCEPT !.current_chain = entry.next_same_hash],
                   res |-> s.res, done |-> FALSE, reads |-> s.reads + 1]
     ELSE Bind(Iter(scan_step, [it |-> it, done |-> FALSE],
                    HASH_TABLE_SIZE + 1).it, LAMBDA sc :
             IF sc.current_chain = 0
             THEN [it |-> sc, res |-> None, done |-> TRUE, reads |-> s.reads]
             ELSE [it |-> sc, res |-> s.res, done |-> FALSE,
                   reads |-> s.reads])

\* DirIter::next
DirIter_next(img, fb, it) ==
  Bind(Iter(LAMBDA t : next_step(img, fb, t),
            [it |-> it, res |-> None, done |-> FALSE, reads |-> 0],
            LoopFuel), LAMBDA s :
    [it |-> s.it,
     res |-> IF s.done THEN s.res
             ELSE [tag |-> "Fuel", block |-> 0, entry_type |-> 0, e |-> ""],
     reads |-> s.reads])

\* find_step that passes over a matching entry with an unrecognized
\* secondary type; C13 does not hold of it
find_step_skips_unknown(img, fb, name, intl, s) ==
  IF s.block = 0
  THEN [s EXCEPT !.res = Some_Err("EntryNotFound"), !.done = TRUE]
  ELSE LET d == read_block(img, fb, s.block)
           entry == EntryBlock_parse(d.blk)
           dir_entry == from_entry_block(s.block, entry)
       IN IF ~d.ok
          THEN [s EXCEPT !.res = Some_Err("BlockReadError"), !.done = TRUE,
                         !.reads = s.reads + 1]
          ELSE IF entry.err # ""
          THEN [s EXCEPT !.res = Some_Err(entry.err), !.done = TRUE,
                         !.reads = s.reads + 1,
                         !.visited = Append(s.visited, s.block)]
          ELSE IF names_equal(entry.name, name, intl) /\ dir_entry.some
          THEN [s EXCEPT !.res = Some_Ok(dir_entry),
                         !.done = TRUE, !.reads = s.reads + 1,
                         !.visited = Append(s.visited, s.block)]
          ELSE [s EXCEPT !.block = entry.next_same_hash,
                         !.reads = s.reads + 1,
                         !.visited = Append(s.visited, s.block)]

\* one iteration of the loop of DirIter::find; s.block is the local `block`
find_step(img, fb, name, intl, s) ==
  IF s.block = 0
  THEN [s EXCEPT !.res = Some_Err("EntryNotFound"), !.done = TRUE]
  ELSE LET d == read_block(img, fb, s.block)
           entry == EntryBlock_parse(d.blk)
           dir_entry == from_entry_block(s.block, entry)
       IN IF ~d.ok
          THEN [s EXCEPT !.res = Some_Err("BlockReadError"), !.done = TRUE,
                         !.reads = s.reads + 1]
          ELSE IF entry.err # ""
          THEN [s EXCEPT !.res = Some_Err(entry.err), !.done = TRUE,
                         !.reads = s.reads + 1,
                         !.visited = Append(s.visited, s.block)]
          ELSE IF names_equal(entry.name, name, intl)
          THEN [s EXCEPT !.res = IF dir_entry.some THEN Some_Ok(dir_entry)
                                 ELSE Some_Err("InvalidSecType"),
                         !.done = TRUE, !.reads = s.reads + 1,
                         !.visited = Append(s.visited, s.block)]
          ELSE [s EXCEPT !.block = entry.next_same_hash,
                         !.reads = s.reads + 1,
                         !.visited = Append(s.visited, s.block)]

\* DirIter::find; `visited` lists the blocks it read
DirIter_find(img, fb, it, name) ==
  IF Len(name) > MAX_NAME_LEN
  THEN [res |-> Some_Err("NameTooLong"), reads |-> 0, visited |-> <<>>]
  ELSE Bind(Iter(LAMBDA t : find_step(img, fb, name, it.intl, t),
                 [block |-> it.hash_table[hash_name(name, it.intl)],
                  res |-> None, done |-> FALSE, reads |-> 0,
                  visited |-> <<>>],
                 LoopFuel), LAMBDA s :
         [res |-> IF s.done THEN s.res
                  ELSE [tag |-> "Fuel", block |-> 0, entry_type |-> 0,
                        e |-> ""],
          reads |-> s.reads, visited |-> s.visited])

(***************************************************************************)
(* Disk images the readers are run on.  Every block is written with the    *)
(* fields of its kind; `pad` is the sum of the words the readers never     *)
(* look at, `good` says whether the stored checksum is the right one.      *)
(***************************************************************************)
RECURSIVE SumTbl(_, _, _)
SumTbl(t, lo, hi) ==
  IF lo = hi THEN t[lo]
  ELSE wrapping_add(SumTbl(t, lo, (lo + hi) \div 2),
                    SumTbl(t, (lo + hi) \div 2 + 1, hi))

MkBlock(id, w0, w8, w12, w16, tbl, w324, w496, w504, w508, pad, good) ==
  Bind(wrapping_add(w0, wrapping_add(w8, wrapping_add(w12,
         wrapping_add(w16, wrapping_add(SumTbl(tbl, 0, MAX_DATABLK - 1),
         wrapping_add(w324, wrapping_add(w496, wrapping_add(w504,
         wrapping_add(w508, pad))))))))), LAMBDA oth :
  LET sum == wrapping_neg(oth)
  IN [id |-> id, w0 |-> w0, w8 |-> w8, w12 |-> w12, w16 |-> w16,
      w20 |-> IF good THEN sum ELSE wrapping_add(sum, 1),
      others |-> oth, tbl |-> tbl, w324 |-> w324, b432 |-> 0,
      name |-> <<>>, w496 |-> w496, w504 |-> w504, w508 |-> w508])

\* pointer table holding n pointers first, first+1, ... in on-disk order:
\* logical entry k is stored in slot MAX_DATABLK-1-k
TblRange(first, n) ==
  [i \in 0..(MAX_DATABLK - 1) |->
     IF MAX_DATABLK - 1 - i < n THEN first + (MAX_DATABLK - 1 - i) ELSE 0]

FileHeader(id, high_seq, first_data, tbl, byte_size, ext) ==
  MkBlock(id, T_HEADER, high_seq, 0, first_data, tbl, byte_size, 0, ext,
          ST_FILE, 7, TRUE)

ExtBlock(id, high_seq, tbl, ext, good) ==
  MkBlock(id, T_LIST, high_seq, 0, 0, tbl, 0, 0, ext, ST_FILE, 0, good)

OfsData(id, seq, data_size, next, good) ==
  MkBlock(id, T_DATA, seq, data_size, next, ZeroTable, 0, 0, 0, 0, id, good)

\* an FFS data block: 512 bytes of file content
RawData(id) ==
  MkBlock(id, id, id, id, id, ZeroTable, id, id, id, id, id, FALSE)

RawRange(first, n) == [b \in first..(first + n - 1) |-> RawData(b)]

Image(name, fs, ctor, blocks, rd, sk, ra, fc) ==
  [name |-> name, fs |-> fs, ctor |-> ctor, hdr |-> 2, blocks |-> blocks,
   rd |-> rd, sk |-> sk, ra |-> ra, fc |-> fc]

\* three data blocks, the last one partial
FfsSmall ==
  Image("ffs_small", "Ffs", "new",
        (2 :> FileHeader(2, 3, 10, TblRange(10, 3), 1100, 0)) @@ RawRange(10, 3),
        {0, 1, 512, 600, 2000}, {0, 100, 512, 1100, 1101}, {1099, 1100}, {11})

\* 72 blocks in the header and one in a chained extension block
FfsExt ==
  Image("ffs_ext", "Ffs", "from_entry",
        (2 :> FileHeader(2, 72, 100, TblRange(100, 72), 72 * 512 + 40, 3))
        @@ (3 :> ExtBlock(3, 1, TblRange(172, 1), 0, TRUE))
        @@ RawRange(100, 73),
        {512, 36864, 40000}, {36000, 36864, 36900}, {40000}, {3})

\* the second pointer of the header table is 0
FfsHole ==
  Image("ffs_hole", "Ffs", "new",
        (2 :> FileHeader(2, 3, 10, [TblRange(10, 3) EXCEPT ![70] = 0], 1536, 0))
        @@ RawRange(10, 3),
        {512, 1024}, {512, 600}, {1536}, {})

\* high_seq counts fewer blocks than byte_size needs, no extension
FfsShortTable ==
  Image("ffs_short_table", "Ffs", "new",
        (2 :> FileHeader(2, 1, 10, TblRange(10, 1), 1100, 0)) @@ RawRange(10, 1),
        {100, 512}, {600}, {1100}, {})

\* the extension block has a wrong checksum
FfsBadExt ==
  Image("ffs_bad_ext", "Ffs", "new",
        (2 :> FileHeader(2, 1, 10, TblRange(10, 1), 1100, 3))
        @@ (3 :> ExtBlock(3, 1, TblRange(11, 1), 0, FALSE)) @@ RawRange(10, 2),
        {512, 600}, {600}, {1100}, {})

\* the extension block names itself as the next extension block
FfsExtCycle ==
  Image("ffs_ext_cycle", "Ffs", "new",
        (2 :> FileHeader(2, 1, 10, TblRange(10, 1), 2000, 3))
        @@ (3 :> ExtBlock(3, 1, TblRange(11, 1), 3, TRUE)) @@ RawRange(10, 2),
        {512, 2000}, {1500}, {2000}, {})

\* high_seq is -1 and byte_size asks for a 73rd block
FfsHighSeq ==
  Image("ffs_high_seq", "Ffs", "new",
        (2 :> FileHeader(2, -1, 100, TblRange(100, 72), 73 * 512, 0))
        @@ RawRange(100, 72),
        {36864, 40000}, {36865}, {40000}, {})

FfsEmpty ==
  Image("ffs_empty", "Ffs", "new",
        (2 :> FileHeader(2, 0, 0, ZeroTable, 0, 0)),
        {0, 10}, {0, 1}, {0}, {})

\* two chained OFS data blocks, 488 + 12 bytes
OfsOk ==
  Image("ofs_ok", "Ofs", "new",
        (2 :> FileHeader(2, 2, 10, TblRange(10, 2), 500, 0))
        @@ (10 :> OfsData(10, 1, 488, 11, TRUE))
        @@ (11 :> OfsData(11, 2, 12, 0, TRUE)),
        {0, 1, 488, 600}, {0, 100, 488, 500, 501}, {499, 500}, {11})

\* the first data block declares fewer than 488 bytes
OfsShort ==
  Image("ofs_short", "Ofs", "from_entry",
        (2 :> FileHeader(2, 2, 10, TblRange(10, 2), 200, 0))
        @@ (10 :> OfsData(10, 1, 100, 11, TRUE))
        @@ (11 :> OfsData(11, 2, 100, 0, TRUE)),
        {50, 100, 200}, {100, 150}, {200}, {})

\* the first data block declares 0 bytes
OfsZero ==
  Image("ofs_zero", "Ofs", "new",
        (2 :> FileHeader(2, 2, 10, TblRange(10, 2), 488, 0))
        @@ (10 :> OfsData(10, 1, 0, 11, TRUE))
        @@ (11 :> OfsData(11, 2, 488, 0, TRUE)),
        {100, 488}, {100}, {488}, {})

\* a checksum-valid data block declares more than 488 bytes
OfsBig ==
  Image("ofs_big", "Ofs", "new",
        (2 :> FileHeader(2, 2, 10, TblRange(10, 2), 1000, 0))
        @@ (10 :> OfsData(10, 1, 600, 11, TRUE))
        @@ (11 :> OfsData(11, 2, 400, 0, TRUE)),
        {100, 489, 600}, {500}, {1000}, {})

\* the data block names itself as next_data
OfsCycle ==
  Image("ofs_cycle", "Ofs", "new",
        (2 :> FileHeader(2, 2, 10, TblRange(10, 2), 1000, 0))
        @@ (10 :> OfsData(10, 1, 488, 10, TRUE)),
        {488, 1000}, {600}, {1000}, {})

\* the second data block has a wrong checksum
OfsBadSum ==
  Image("ofs_bad_sum", "Ofs", "new",
        (2 :> FileHeader(2, 2, 10, TblRange(10, 2), 900, 0))
        @@ (10 :> OfsData(10, 1, 488, 11, TRUE))
        @@ (11 :> OfsData(11, 2, 412, 0, FALSE)),
        {488, 900}, {600}, {900}, {})

Images ==
  {FfsSmall, FfsExt, FfsHole, FfsShortTable, FfsBadExt, FfsExtCycle,
   FfsHighSeq, FfsEmpty, OfsOk, OfsShort, OfsZero, OfsBig, OfsCycle,
   OfsBadSum}

\* the reader as construction leaves it
Fresh(img) ==
  IF img.ctor = "new" THEN FileReader_new(img, NoFail).r
  ELSE FileReader_from_entry(img, EntryBlock_parse(img.blocks[img.hdr])).r

(***************************************************************************)
(* Directories the iterator is run on: the 72-slot hash table of the       *)
(* directory block and the entry blocks on its chains.                     *)
(***************************************************************************)
\* an entry block with secondary type sec whose next_same_hash is next
Entry(id, next, sec, good) ==
  MkBlock(id, T_HEADER, 0, 0, 0, ZeroTable, 0, next, 0, sec, id, good)

\* the big-endian word of four bytes, as a two's-complement value
BeWord(b0, b1, b2, b3) ==
  (((b0 + 128) % 256) - 128) * 16777216 + b1 * 65536 + b2 * 256 + b3

\* the wrapping sum of the words k.. of the name field, the eight words
\* at offsets 0x1B0..0x1CF
RECURSIVE NameWords(_, _)
NameWords(b, k) ==
  IF k > 7 THEN 0
  ELSE wrapping_add(BeWord(NameByte(b, 4 * k), NameByte(b, 4 * k + 1),
                           NameByte(b, 4 * k + 2), NameByte(b, 4 * k + 3)),
                    NameWords(b, k + 1))

\* the block blk with the length byte len and the name bytes nm written to
\* its name field, and its checksum adjusted by what the name adds
Named(blk, len, nm) ==
  Bind(NameWords([blk EXCEPT !.b432 = len, !.name = nm], 0), LAMBDA ns :
    [blk EXCEPT !.b432 = len, !.name = nm,
                !.others = wrapping_add(blk.others, ns),
                !.w20 = wrapping_add(blk.w20, wrapping_neg(ns))])

\* a well-formed entry block named nm
NamedEntry(id, next, sec, nm) ==
  Named(Entry(id, next, sec, TRUE), Len(nm), nm)

\* the hash table with the chain heads f[i] in the slots i of DOMAIN f
Buckets(f) ==
  [i \in 0..(HASH_TABLE_SIZE - 1) |-> IF i \in DOMAIN f THEN f[i] ELSE 0]

DirImage(name, hash_table, blocks, fc) ==
  [name |-> name, hash_table |-> hash_table, blocks |-> blocks, fc |-> fc]

\* a chain of three with an unrecognized entry in the middle, then two
\* chains of one, the last in the last slot
DirChain ==
  DirImage("dir_chain", Buckets((3 :> 20) @@ (40 :> 30) @@ (71 :> 31)),
           (20 :> Entry(20, 21, ST_FILE, TRUE))
           @@ (21 :> Entry(21, 22, 9, TRUE))
           @@ (22 :> Entry(22, 0, ST_DIR, TRUE))
           @@ (30 :> Entry(30, 0, ST_LSOFT, TRUE))
           @@ (31 :> Entry(31, 0, ST_LFILE, TRUE)),
           {20, 22})

DirEmpty == DirImage("dir_empty", Buckets(<<>>), <<>>, {})

\* only entries with an unrecognized secondary type
DirUnknown ==
  DirImage("dir_unknown", Buckets((0 :> 20) @@ (7 :> 22)),
           (20 :> Entry(20, 21, 9, TRUE))
           @@ (21 :> Entry(21, 0, 0, TRUE))
           @@ (22 :> Entry(22, 0, -5, TRUE)),
           {21})

\* two chains that end in the same entry block
DirMerge ==
  DirImage("dir_merge", Buckets((1 :> 20) @@ (2 :> 21)),
           (20 :> Entry(20, 22, ST_FILE, TRUE))
           @@ (21 :> Entry(21, 22, ST_LDIR, TRUE))
           @@ (22 :> Entry(22, 0, ST_FILE, TRUE)),
           {})

\* a chain pointer names a block the device does not have
DirMissing ==
  DirImage("dir_missing", Buckets((5 :> 20) @@ (9 :> 30)),
           (20 :> Entry(20, 99, ST_FILE, TRUE))
           @@ (30 :> Entry(30, 0, ST_DIR, TRUE)),
           {})

\* a chain block with a wrong checksum
DirBadSum ==
  DirImage("dir_bad_sum", Buckets((0 :> 20) @@ (1 :> 30)),
           (20 :> Entry(20, 21, ST_FILE, TRUE))
           @@ (21 :> Entry(21, 0, ST_FILE, FALSE))
           @@ (30 :> Entry(30, 0, ST_DIR, TRUE)),
           {})

\* a chain pointer names an OFS data block
DirBadType ==
  DirImage("dir_bad_type", Buckets((70 :> 20) @@ (71 :> 30)),
           (20 :> OfsData(20, 1, 488, 0, TRUE))
           @@ (30 :> Entry(30, 0, ST_DIR, TRUE)),
           {30})

\* a name of n bytes "B"
LongName(n) == [i \in 1..n |-> 66]

\* named entries: the bucket of "A" holds "x", "a", "A"; "C" is in its
\* bucket; "D" is in a bucket that is not the one of its hash; the entry
\* named 0xE0 is in the bucket of the international hash of its name; the
\* bucket of "E" holds an "E" with an unrecognized secondary type before a
\* file "E"; the entry in the bucket of the 30-byte name stores 31 name
\* bytes and the length byte 31
DirNames ==
  DirImage("dir_names",
           Buckets((6 :> 20) @@ (8 :> 30) @@ (11 :> 32) @@ (61 :> 40)
                   @@ (10 :> 50) @@ (34 :> 60)),
           (20 :> NamedEntry(20, 21, ST_FILE, <<120>>))
           @@ (21 :> NamedEntry(21, 22, ST_DIR, <<97>>))
           @@ (22 :> NamedEntry(22, 0, ST_FILE, <<65>>))
           @@ (30 :> NamedEntry(30, 0, ST_FILE, <<67>>))
           @@ (32 :> NamedEntry(32, 0, ST_FILE, <<68>>))
           @@ (40 :> NamedEntry(40, 0, ST_DIR, <<224>>))
           @@ (50 :> NamedEntry(50, 51, 9, <<69>>))
           @@ (51 :> NamedEntry(51, 0, ST_FILE, <<69>>))
           @@ (60 :> NamedEntry(60, 0, ST_FILE, LongName(31))),
           {21})

\* the chain of the bucket of "A" leads back to its first block
DirCycle ==
  DirImage("dir_cycle", Buckets((6 :> 20) @@ (8 :> 30)),
           (20 :> NamedEntry(20, 21, ST_FILE, <<120>>))
           @@ (21 :> NamedEntry(21, 20, ST_DIR, <<121>>))
           @@ (30 :> NamedEntry(30, 0, ST_FILE, <<67>>)),
           {})

\* a cycle of entries with an unrecognized secondary type, after a file
DirUnknownCycle ==
  DirImage("dir_unknown_cycle", Buckets((6 :> 20)),
           (20 :> NamedEntry(20, 21, ST_FILE, <<65>>))
           @@ (21 :> NamedEntry(21, 22, 9, <<120>>))
           @@ (22 :> NamedEntry(22, 21, 0, <<121>>)),
           {})

DirImages ==
  {DirChain, DirEmpty, DirUnknown, DirMerge, DirMissing, DirBadSum,
   DirBadType, DirNames, DirCycle, DirUnknownCycle}

\* the names find is called with
FindNames ==
  {<<>>, <<65>>, <<97>>, <<67>>, <<68>>, <<69>>, <<192>>, <<224>>,
   LongName(MAX_NAME_LEN), LongName(MAX_NAME_LEN + 1)}

(***************************************************************************)
(* The file reader's state machine.  `last` records the last call (its     *)
(* argument, the block that was unreadable during it, its result, the      *)
(* segments it copied, its device reads, and the reader, `clean` and        *)
(* `gpos` before it);                                                      *)
(* `shadow` is a freshly constructed reader that is driven with the same   *)
(* reads since the last reset or successful seek; `gpos` counts the bytes  *)
(* the caller has been given; `clean` says that no call failed so far.     *)
(***************************************************************************)
NoShadow == [r |-> ZeroBuf, res |-> Ok(0), out |-> <<>>, from |-> ZeroBuf]

NoDir == [name |-> "none"]

Init ==
  /\ image \in Images
  /\ reader = Fresh(image)
  /\ last = [op |-> "new", arg |-> 0, fb |-> NoFail, res |-> Ok(0),
             out |-> <<>>, reads |-> 0, pre |-> Fresh(image),
             clean_pre |-> TRUE, gpos_pre |-> 0]
  /\ shadow = NoShadow
  /\ sync = "none"
  /\ clean = TRUE
  /\ gpos = 0
  /\ ops = 0
  /\ dimage = NoDir
  /\ diter = NoDir
  /\ dlast = NoDir
  /\ yielded = <<>>
  /\ dops = 0
  /\ call = NoDir

Fails(img) == {NoFail} \cup img.fc

CanCall == ops < MaxOps /\ last.res.tag # "Panic"

Record(op, arg, fb, c) ==
  [op |-> op, arg |-> arg, fb |-> fb, res |-> c.res, out |-> c.out,
   reads |-> c.reads, pre |-> reader, clean_pre |-> clean,
   gpos_pre |-> gpos]

Read(n, fb) ==
  /\ CanCall
  /\ \E c \in {read(image, fb, reader, n)},
        s \in {IF sync = "none" THEN NoShadow
               ELSE read(image, fb, shadow.r, n)} :
     /\ reader' = c.r
     /\ last' = Record("read", n, fb, c)
     /\ shadow' = IF sync = "none" THEN shadow
                  ELSE [shadow EXCEPT !.r = s.r, !.res = s.res, !.out = s.out]
     /\ clean' = (clean /\ c.res.tag = "Ok")
     /\ gpos' = gpos + c.res.n
     /\ ops' = ops + 1
     /\ UNCHANGED <<image, sync>>
     /\ UNCHANGED <<dvars, pvars>>

ReadAll(n, fb) ==
  /\ CanCall
  /\ \E c \in {read_all(image, fb, reader, n)} :
     /\ reader' = c.r
     /\ last' = Record("read_all", n, fb, c)
     /\ shadow' = NoShadow
     /\ sync' = "none"
     /\ clean' = (clean /\ c.res.tag = "Ok")
     /\ gpos' = gpos + c.res.n
     /\ ops' = ops + 1
     /\ UNCHANGED image
     /\ UNCHANGED <<dvars, pvars>>

Seek(p, fb) ==
  /\ CanCall
  /\ \E c \in {seek(image, fb, reader, p)},
        f \in {Bind(Fresh(image), LAMBDA fr : read(image, NoFail, fr, p))} :
     LET same == c.res.tag = "Ok" /\ f.res = Ok(p) IN
     /\ reader' = c.r
     /\ last' = Record("seek", p, fb, c)
     /\ shadow' = IF same
                  THEN [r |-> f.r, res |-> Ok(0), out |-> <<>>, from |-> reader]
                  ELSE NoShadow
     /\ sync' = IF same THEN "seek" ELSE "none"
     /\ clean' = (clean /\ c.res.tag = "Ok")
     /\ gpos' = IF c.res.tag = "Ok" THEN p ELSE gpos
     /\ ops' = ops + 1
     /\ UNCHANGED image
     /\ UNCHANGED <<dvars, pvars>>

Reset ==
  /\ CanCall
  /\ reader' = reset(reader)
  /\ last' = [op |-> "reset", arg |-> 0, fb |-> NoFail, res |-> Ok(0),
              out |-> <<>>, reads |-> 0, pre |-> reader,
              clean_pre |-> clean, gpos_pre |-> gpos]
  /\ shadow' = [r |-> Fresh(image), res |-> Ok(0), out |-> <<>>,
                from |-> reader]
  /\ sync' = "reset"
  /\ gpos' = 0
  /\ ops' = ops + 1
  /\ UNCHANGED <<image, clean>>
  /\ UNCHANGED <<dvars, pvars>>

Next ==
  \/ \E n \in image.rd, fb \in Fails(image) : Read(n, fb)
  \/ \E n \in image.ra, fb \in Fails(image) : ReadAll(n, fb)
  \/ \E p \in image.sk, fb \in Fails(image) : Seek(p, fb)
  \/ Reset

Spec == Init /\ [][Next]_vars

(***************************************************************************)
(* The directory iterator's state machine.  `dlast` records the last call  *)
(* of next (the block that was unreadable during it, its item, its device  *)
(* reads, the iterator before it, the item of the call before it, whether  *)
(* an earlier call returned None, whether an earlier call returned          *)
(* Err(BlockReadError), and whether the device worked in every call so     *)
(* far); `yielded` lists the blocks of the Ok items so far.        *)
(***************************************************************************)
InitDir ==
  /\ dimage \in DirImages
  /\ \E intl \in BOOLEAN :
        /\ diter = DirIter_new(dimage.hash_table, intl)
        /\ dlast = [op |-> "new", name |-> <<>>, fb |-> NoFail,
                    res |-> None, reads |-> 0, visited |-> <<>>,
                    pre |-> DirIter_new(dimage.hash_table, intl),
                    prev |-> None, ended |-> FALSE, failed |-> FALSE,
                    working |-> TRUE]
  /\ yielded = <<>>
  /\ dops = 0
  /\ call = NoDir
  /\ image = NoDir
  /\ reader = NoDir
  /\ last = NoDir
  /\ shadow = NoShadow
  /\ sync = "none"
  /\ clean = TRUE
  /\ gpos = 0
  /\ ops = 0

DirNext(fb) ==
  /\ dops < MaxDirOps
  /\ dlast.res.tag # "Fuel"
  /\ dlast.op # "find"
  /\ \E c \in {DirIter_next(dimage, fb, diter)} :
     /\ diter' = c.it
     /\ dlast' = [op |-> "next", name |-> <<>>, fb |-> fb, res |-> c.res,
                  reads |-> c.reads, visited |-> <<>>,
                  pre |-> diter, prev |-> dlast.res,
                  ended |-> (dlast.ended
                             \/ (dlast.op = "next" /\ dlast.res.tag = "None")),
                  failed |-> (dlast.failed
                              \/ dlast.res = Some_Err("BlockReadError")),
                  working |-> (dlast.working /\ fb = NoFail)]
     /\ yielded' = IF c.res.tag = "Ok" THEN Append(yielded, c.res.block)
                   ELSE yielded
     /\ dops' = dops + 1
     /\ UNCHANGED dimage
     /\ UNCHANGED <<fvars, pvars>>

\* find takes the iterator by value: no call follows it
DirFind(name, fb) ==
  /\ dops < MaxDirOps
  /\ dlast.res.tag # "Fuel"
  /\ dlast.op # "find"
  /\ \E c \in {DirIter_find(dimage, fb, diter, name)} :
     /\ dlast' = [op |-> "find", name |-> name, fb |-> fb, res |-> c.res,
                  reads |-> c.reads, visited |-> c.visited,
                  pre |-> diter, prev |-> dlast.res,
                  ended |-> dlast.ended, failed |-> dlast.failed,
                  working |-> (dlast.working /\ fb = NoFail)]
     /\ dops' = dops + 1
     /\ UNCHANGED <<dimage, diter, yielded>>
     /\ UNCHANGED <<fvars, pvars>>

NextDir ==
  \/ \E fb \in Fails(dimage) : DirNext(fb)
  \/ \E name \in FindNames, fb \in Fails(dimage) : DirFind(name, fb)

SpecDir == InitDir /\ [][NextDir]_vars

(***************************************************************************)
(* The entries a directory stands for, read off the image                  *)
(***************************************************************************)
\* the blocks of the chain that starts at block b, at most `fuel` of them
RECURSIVE Chain(_, _, _)
Chain(img, b, fuel) ==
  IF b = 0 \/ fuel = 0 \/ b \notin DOMAIN img.blocks THEN <<>>
  ELSE <<b>> \o Chain(img, img.blocks[b].w496, fuel - 1)

\* the chain from b ends with next_same_hash = 0 after fewer than MaxChain
\* blocks, all of them on the device and decoding as entry blocks
ChainDecodes(img, b) ==
  LET c == Chain(img, b, MaxChain)
  IN b # 0 =>
       /\ Len(c) >= 1 /\ Len(c) < MaxChain
       /\ \A i \in 1..Len(c) : EntryBlock_parse(img.blocks[c[i]]).err = ""
       /\ img.blocks[c[Len(c)]].w496 = 0

GoodDir(img) ==
  \A i \in 0..(HASH_TABLE_SIZE - 1) : ChainDecodes(img, img.hash_table[i])

\* the entries with a recognized secondary type on the chain of bucket i
Recognized(img, i) ==
  SelectSeq(Chain(img, img.hash_table[i], MaxChain),
            LAMBDA b : entry_type_known(img.blocks[b].w508))

\* ... of the buckets lo..hi, in bucket order
RECURSIVE Expected(_, _, _)
Expected(img, lo, hi) ==
  IF lo = hi THEN Recognized(img, lo)
  ELSE Expected(img, lo, (lo + hi) \div 2)
       \o Expected(img, (lo + hi) \div 2 + 1, hi)

\* no block is on two chains
DisjointChains(img) ==
  \A i, j \in 0..(HASH_TABLE_SIZE - 1) :
     i # j =>
       \A a \in 1..Len(Chain(img, img.hash_table[i], MaxChain)) :
          \A b \in 1..Len(Chain(img, img.hash_table[j], MaxChain)) :
             Chain(img, img.hash_table[i], MaxChain)[a]
               # Chain(img, img.hash_table[j], MaxChain)[b]

(***************************************************************************)
(* Calls of hash_name and names_equal.  `call` holds two names that are    *)
(* built byte by byte from NameBytes, the mode, and the results of the     *)
(* last call on them.                                                      *)
(***************************************************************************)
\* A, a, agrave, Agrave, the division sign and the multiplication sign
NameBytes == {65, 97, 224, 192, 247, 215}

InitName ==
  /\ \E m \in BOOLEAN :
        call = [op |-> "new", a |-> <<>>, b |-> <<>>, intl |-> m,
                hash_a |-> 0, hash_b |-> 0, eq_ab |-> FALSE, eq_ba |-> FALSE]
  /\ image = NoDir
  /\ reader = NoDir
  /\ last = NoDir
  /\ shadow = NoShadow
  /\ sync = "none"
  /\ clean = TRUE
  /\ gpos = 0
  /\ ops = 0
  /\ dimage = NoDir
  /\ diter = NoDir
  /\ dlast = NoDir
  /\ yielded = <<>>
  /\ dops = 0

PushA(c) ==
  /\ Len(call.a) < MaxNameLen
  /\ call' = [call EXCEPT !.op = "edit", !.a = Append(call.a, c),
                          !.hash_a = 0, !.hash_b = 0,
                          !.eq_ab = FALSE, !.eq_ba = FALSE]
  /\ UNCHANGED <<fvars, dvars>>

PushB(c) ==
  /\ Len(call.b) < MaxNameLen
  /\ call' = [call EXCEPT !.op = "edit", !.b = Append(call.b, c),
                          !.hash_a = 0, !.hash_b = 0,
                          !.eq_ab = FALSE, !.eq_ba = FALSE]
  /\ UNCHANGED <<fvars, dvars>>

HashName ==
  /\ call.op \in {"new", "edit"}
  /\ call' = [call EXCEPT !.op = "hash_name",
                          !.hash_a = hash_name(call.a, call.intl),
                          !.hash_b = hash_name(call.b, call.intl)]
  /\ UNCHANGED <<fvars, dvars>>

NamesEqual ==
  /\ call.op \in {"new", "edit"}
  /\ call' = [call EXCEPT !.op = "names_equal",
                          !.eq_ab = names_equal(call.a, call.b, call.intl),
                          !.eq_ba = names_equal(call.b, call.a, call.intl)]
  /\ UNCHANGED <<fvars, dvars>>

NextName ==
  \/ \E c \in NameBytes : PushA(c)
  \/ \E c \in NameBytes : PushB(c)
  \/ HashName
  \/ NamesEqual

SpecName == InitName /\ [][NextName]_vars

(***************************************************************************)
(* Checksum round trips.  `call` holds a buffer and the parser it is meant *)
(* for; words are written into it, its checksum is set as the test helper  *)
(* set_checksum does, and it is parsed.  `sealed` says that the checksum    *)
(* was set, `ok_at_seal` that the buffer parsed at that moment, `changed`   *)
(* is the word that was given another value since (NoId: none).            *)
(***************************************************************************)
Kinds == {"RootBlock", "EntryBlock", "FileExtBlock", "OfsDataBlock"}

\* the type tag the parser of a kind asks for
TagOf(kind) ==
  IF kind = "FileExtBlock" THEN T_LIST
  ELSE IF kind = "OfsDataBlock" THEN T_DATA
  ELSE T_HEADER

\* the error of the parser of a kind on the buffer w, "" when it succeeds
ParseErr(kind, w) ==
  Bind(ToBlock(w), LAMBDA b :
    IF kind = "RootBlock" THEN RootBlock_parse(b).err
    ELSE IF kind = "EntryBlock" THEN EntryBlock_parse(b).err
    ELSE IF kind = "FileExtBlock" THEN FileExtBlock_parse(b).err
    ELSE OfsDataBlock_parse(b).err)

\* the words that are written: type tag, checksum, a table word, the
\* secondary type
SumIdx == {0, 5, 25, 127}

SumVals == {0, T_HEADER, T_LIST, ST_ROOT, 0 - 1, I32_MIN}

\* a zeroed buffer with the type tag of the kind and, for a root block,
\* the secondary type ST_ROOT
BaseBuf(kind) ==
  [i \in 0..(BLOCK_SIZE \div 4 - 1) |->
     IF i = 0 THEN TagOf(kind)
     ELSE IF i = 127 /\ kind = "RootBlock" THEN ST_ROOT
     ELSE 0]

InitSum ==
  /\ \E kind \in Kinds :
        call = [op |-> "new", kind |-> kind, buf |-> BaseBuf(kind),
                sealed |-> FALSE, ok_at_seal |-> FALSE, changed |-> NoId,
                res |-> "", n |-> 0]
  /\ dimage = NoDir
  /\ diter = NoDir
  /\ dlast = NoDir
  /\ yielded = <<>>
  /\ dops = 0
  /\ image = NoDir
  /\ reader = NoDir
  /\ last = NoDir
  /\ shadow = NoShadow
  /\ sync = "none"
  /\ clean = TRUE
  /\ gpos = 0
  /\ ops = 0

\* buf[4*i .. 4*i+4] = v; after set_checksum only one word other than the
\* checksum is given another value
WriteWord(i, v) ==
  /\ call.n < MaxSumOps
  /\ call.sealed => (i # 5 /\ v # call.buf[i] /\ call.changed = NoId)
  /\ call' = [call EXCEPT !.op = "write", !.buf[i] = v,
                          !.changed = IF call.sealed THEN i ELSE NoId,
                          !.res = "", !.n = call.n + 1]
  /\ UNCHANGED <<fvars, dvars>>

\* set_checksum(&mut buf, 20)
SetChecksum ==
  /\ ~call.sealed
  /\ \E c \in {normal_sum_slice_scalar(call.buf, 20)} :
     \E b \in {[call.buf EXCEPT ![5] = c]} :
        call' = [call EXCEPT !.op = "set_checksum", !.buf = b,
                             !.sealed = TRUE,
                             !.ok_at_seal = (ParseErr(call.kind, b) = ""),
                             !.res = ""]
  /\ UNCHANGED <<fvars, dvars>>

\* RootBlock::parse, EntryBlock::parse, FileExtBlock::parse or
\* OfsDataBlock::parse on the buffer
ParseBuf ==
  /\ call.op # "parse"
  /\ call' = [call EXCEPT !.op = "parse",
                          !.res = ParseErr(call.kind, call.buf)]
  /\ UNCHANGED <<fvars, dvars>>

NextSum ==
  \/ \E i \in SumIdx, v \in SumVals : WriteWord(i, v)
  \/ SetChecksum
  \/ ParseBuf

SpecSum == InitSum /\ [][NextSum]_vars

(***************************************************************************)
(* The boot block and opening a volume (src/src/block.rs,                  *)
(* src/src/reader.rs).  A boot block is the function from 0..255 to its    *)
(* big-endian words.                                                       *)
(***************************************************************************)
\* one iteration of the loop of boot_sum_scalar: add with end-around carry
boot_step(buf, s) ==
  IF s.i = BOOT_BLOCK_SIZE \div 4 THEN [s EXCEPT !.done = TRUE]
  ELSE IF s.i = 1 THEN [s EXCEPT !.i = s.i + 1]
  ELSE Bind(wrapping_add(s.sum, buf[s.i]), LAMBDA new_sum :
         [s EXCEPT !.i = s.i + 1,
                   !.sum = wrapping_add(new_sum,
                             IF u32_lt(new_sum, s.sum) THEN 1 ELSE 0)])

\* boot_sum: the bitwise complement of the sum
boot_sum(buf) ==
  (0 - 1) - Iter(LAMBDA t : boot_step(buf, t),
                 [i |-> 0, sum |-> 0, done |-> FALSE],
                 BOOT_BLOCK_SIZE \div 4 + 1).sum

\* BootBlock::parse that checks the checksum also without boot code; C18
\* does not hold of it
BootBlock_parse_always_sums(buf) ==
  IF <<WordByte(buf[0], 0), WordByte(buf[0], 1), WordByte(buf[0], 2)>>
       # <<68, 79, 83>>
  THEN [err |-> "InvalidDosType"]
  ELSE IF buf[1] # boot_sum(buf)
  THEN [err |-> "ChecksumMismatch"]
  ELSE [err |-> "", dos_type |-> WordByte(buf[0], 3), checksum |-> buf[1],
        root_block |-> buf[2]]

\* BootBlock::parse: the signature "DOS", then the checksum when byte 12
\* is not zero
BootBlock_parse(buf) ==
  IF <<WordByte(buf[0], 0), WordByte(buf[0], 1), WordByte(buf[0], 2)>>
       # <<68, 79, 83>>
  THEN [err |-> "InvalidDosType"]
  ELSE IF WordByte(buf[3], 0) # 0 /\ buf[1] # boot_sum(buf)
  THEN [err |-> "ChecksumMismatch"]
  ELSE [err |-> "", dos_type |-> WordByte(buf[0], 3), checksum |-> buf[1],
        root_block |-> buf[2]]

\* x / 2 for a word read as u32
u32_half(x) == IF x >= 0 THEN x \div 2 ELSE (x \div 2) + 2147483647 + 1

\* a well-formed entry block named nm with the hash table tbl
DirBlock(id, nm, tbl, sec) ==
  Named(MkBlock(id, T_HEADER, 0, 0, 0, tbl, 0, 0, 0, sec, id, TRUE),
        Len(nm), nm)

\* the blocks of a device behind its boot block: a root block with a wrong
\* checksum at 2, the root block at 4 with the directory "A" (block 10) and
\* the file "B" (block 11), a directory at 8; "A" holds a directory "A"
\* (block 12) and a file "B" (block 13)
VolumeBlocks ==
  (2 :> MkBlock(2, T_HEADER, 0, HASH_TABLE_SIZE, 0, ZeroTable, 0, 0, 0,
                ST_ROOT, 0, FALSE))
  @@ (4 :> MkBlock(4, T_HEADER, 0, HASH_TABLE_SIZE, 0,
                   Buckets((6 :> 10) @@ (7 :> 11)), 0, 0, 0, ST_ROOT, 0,
                   TRUE))
  @@ (8 :> Entry(8, 0, ST_DIR, TRUE))
  @@ (10 :> DirBlock(10, <<65>>, Buckets((6 :> 12) @@ (7 :> 13)), ST_DIR))
  @@ (11 :> DirBlock(11, <<66>>, ZeroTable, ST_FILE))
  @@ (12 :> DirBlock(12, <<65>>, ZeroTable, ST_DIR))
  @@ (13 :> DirBlock(13, <<66>>, ZeroTable, ST_FILE))

\* the device: blocks 0 and 1 are the halves of the boot block
Device(boot) ==
  [blocks |->
     (0 :> ToBlock([i \in 0..(BLOCK_SIZE \div 4 - 1) |-> boot[i]]))
     @@ (1 :> ToBlock([i \in 0..(BLOCK_SIZE \div 4 - 1) |->
                         boot[BLOCK_SIZE \div 4 + i]]))
     @@ VolumeBlocks]

NoReader == [root_block |-> 0, hash_table |-> ZeroTable, intl |-> FALSE]

\* the tail of with_size, from the root block number on, with `>` in the
\* range check; C19 does not hold of it
open_root_off_by_one(dev, fb, boot, root_block, total_blocks) ==
  IF u32_lt(total_blocks, root_block)
  THEN [res |-> "BlockOutOfRange", reads |-> 2, r |-> NoReader]
  ELSE LET d == read_block(dev, fb, root_block)
           root == RootBlock_parse(d.blk)
       IN IF ~d.ok
          THEN [res |-> "BlockReadError", reads |-> 3, r |-> NoReader]
          ELSE IF root.err # ""
          THEN [res |-> root.err, reads |-> 3, r |-> NoReader]
          ELSE [res |-> "", reads |-> 3,
                r |-> [root_block |-> root_block,
                       hash_table |-> root.hash_table,
                       intl |-> (boot.dos_type \div DOSFS_INTL) % 2 = 1]]

\* the tail of with_size, from the root block number on
open_root(dev, fb, boot, root_block, total_blocks) ==
  IF ~u32_lt(root_block, total_blocks)
  THEN [res |-> "BlockOutOfRange", reads |-> 2, r |-> NoReader]
  ELSE LET d == read_block(dev, fb, root_block)
           root == RootBlock_parse(d.blk)
       IN IF ~d.ok
          THEN [res |-> "BlockReadError", reads |-> 3, r |-> NoReader]
          ELSE IF root.err # ""
          THEN [res |-> root.err, reads |-> 3, r |-> NoReader]
          ELSE [res |-> "", reads |-> 3,
                r |-> [root_block |-> root_block,
                       hash_table |-> root.hash_table,
                       intl |-> (boot.dos_type \div DOSFS_INTL) % 2 = 1]]

\* AffsReader::with_size on the device with the boot block boot_buf
with_size(boot_buf, fb, total_blocks) ==
  IF fb = 0 THEN [res |-> "BlockReadError", reads |-> 1, r |-> NoReader]
  ELSE IF fb = 1 THEN [res |-> "BlockReadError", reads |-> 2, r |-> NoReader]
  ELSE Bind(BootBlock_parse(boot_buf), LAMBDA boot :
         IF boot.err # ""
         THEN [res |-> boot.err, reads |-> 2, r |-> NoReader]
         ELSE open_root(Device(boot_buf), fb, boot,
                        IF boot.root_block # 0 THEN boot.root_block
                        ELSE u32_half(total_blocks),
                        total_blocks))

\* the boot block with its checksum set as test_boot_block_with_code does
WithBootSum(b) == [b EXCEPT ![1] = boot_sum(b)]

\* create_boot_block: "DOS", the FFS flag, the root pointer
BootPlain(root) ==
  [i \in 0..(BOOT_BLOCK_SIZE \div 4 - 1) |->
     IF i = 0 THEN BeWord(68, 79, 83, 1) ELSE IF i = 2 THEN root ELSE 0]

\* a boot block with boot code whose sum has carries, checksum set
BootCode ==
  WithBootSum([BootPlain(4) EXCEPT ![3] = BeWord(96, 0, 0, 0),
                                   ![200] = 0 - 1, ![255] = I32_MIN])

BootImages == {BootPlain(0), BootPlain(4), BootCode}

\* the words that are written: signature, checksum, root pointer, the word
\* with byte 12
BootIdx == {0, 1, 2, 3}

BootVals == {0, 8, 0 - 1, BeWord(68, 79, 83, 3), BeWord(96, 0, 0, 0)}

Totals == {0, 1, 4, 8, 16, 0 - 1}

InitBoot ==
  /\ \E b \in BootImages :
        call = [op |-> "new", boot |-> b, res |-> "", reads |-> 0,
                total |-> 0, fb |-> NoFail, r |-> NoReader, n |-> 0]
  /\ dimage = NoDir
  /\ diter = NoDir
  /\ dlast = NoDir
  /\ yielded = <<>>
  /\ dops = 0
  /\ image = NoDir
  /\ reader = NoDir
  /\ last = NoDir
  /\ shadow = NoShadow
  /\ sync = "none"
  /\ clean = TRUE
  /\ gpos = 0
  /\ ops = 0

\* the calls leave the boot block as it is; it is edited before them
Editable == call.op \in {"new", "write", "set_sum"}

SetBootWord(i, v) ==
  /\ Editable
  /\ call.n < MaxBootOps
  /\ call' = [call EXCEPT !.op = "write", !.boot[i] = v, !.n = call.n + 1]
  /\ UNCHANGED <<fvars, dvars>>

SetBootSum ==
  /\ Editable
  /\ call.op # "set_sum"
  /\ \E b \in {WithBootSum(call.boot)} :
        call' = [call EXCEPT !.op = "set_sum", !.boot = b]
  /\ UNCHANGED <<fvars, dvars>>

ParseBoot ==
  /\ Editable
  /\ call' = [call EXCEPT !.op = "parse",
                          !.res = BootBlock_parse(call.boot).err]
  /\ UNCHANGED <<fvars, dvars>>

WithSize(total_blocks, fb) ==
  /\ Editable
  /\ \E c \in {with_size(call.boot, fb, total_blocks)} :
        call' = [call EXCEPT !.op = "with_size", !.res = c.res,
                             !.reads = c.reads, !.total = total_blocks,
                             !.fb = fb, !.r = c.r]
  /\ UNCHANGED <<fvars, dvars>>

NextBoot ==
  \/ \E i \in BootIdx, v \in BootVals : SetBootWord(i, v)
  \/ SetBootSum
  \/ ParseBoot
  \/ \E t \in Totals, fb \in {NoFail, 0, 1, 4} : WithSize(t, fb)

SpecBoot == InitBoot /\ [][NextBoot]_vars

(***************************************************************************)
(* Path lookup (src/src/reader.rs).  A path is a sequence of bytes; 47 is  *)
(* the slash.                                                              *)
(***************************************************************************)
\* path.split(|&b| b == b'/'): the pieces between the slashes, empty ones
\* included
RECURSIVE split_from(_, _, _, _)
split_from(path, i, cur, acc) ==
  IF i > Len(path) THEN Append(acc, cur)
  ELSE IF path[i] = 47 THEN split_from(path, i + 1, <<>>, Append(acc, cur))
  ELSE split_from(path, i + 1, Append(cur, path[i]), acc)

\* EntryType::is_dir of the entry of an Ok item
entry_is_dir(item) == item.entry_type \in {ST_ROOT, ST_DIR, ST_LDIR}

\* AffsReader::read_dir
read_dir(dev, fb, r, block) ==
  IF block = r.root_block
  THEN [err |-> "", it |-> DirIter_new(r.hash_table, r.intl), reads |-> 0]
  ELSE LET d == read_block(dev, fb, block)
           entry == EntryBlock_parse(d.blk)
       IN IF ~d.ok
          THEN [err |-> "BlockReadError", it |-> NoDir, reads |-> 1]
          ELSE IF entry.err # ""
          THEN [err |-> entry.err, it |-> NoDir, reads |-> 1]
          ELSE IF ~(entry.sec_type = ST_DIR \/ entry.sec_type = ST_LDIR)
          THEN [err |-> "NotADirectory", it |-> NoDir, reads |-> 1]
          ELSE [err |-> "", it |-> DirIter_new(entry.hash_table, r.intl),
                reads |-> 1]

\* AffsReader::find_entry
find_entry(dev, fb, r, dir_block, name) ==
  Bind(read_dir(dev, fb, r, dir_block), LAMBDA d :
    IF d.err # "" THEN [res |-> Some_Err(d.err), reads |-> d.reads]
    ELSE Bind(DirIter_find(dev, fb, d.it, name), LAMBDA f :
           [res |-> f.res, reads |-> d.reads + f.reads]))

\* the loop of find_path that looks up the empty components as well; C20
\* does not hold of it
RECURSIVE path_loop_keeps_empty(_, _, _, _, _, _)
path_loop_keeps_empty(dev, fb, r, comps, k, st) ==
  IF k > Len(comps)
  THEN [res |-> IF st.final_entry.tag = "None" THEN Some_Err("EntryNotFound")
                ELSE st.final_entry,
        reads |-> st.reads, lookups |-> st.lookups]
  ELSE Bind(find_entry(dev, fb, r, st.current_block, comps[k]), LAMBDA e :
         IF e.res.tag # "Ok"
         THEN [res |-> e.res, reads |-> st.reads + e.reads,
               lookups |-> st.lookups + 1]
         ELSE path_loop_keeps_empty(dev, fb, r, comps, k + 1,
                [current_block |-> IF entry_is_dir(e.res) THEN e.res.block
                                   ELSE st.current_block,
                 final_entry |-> e.res, reads |-> st.reads + e.reads,
                 lookups |-> st.lookups + 1]))

\* the loop of find_path over the components from the k-th on and the
\* final ok_or; `lookups` counts the find_entry calls
RECURSIVE path_loop(_, _, _, _, _, _)
path_loop(dev, fb, r, comps, k, st) ==
  IF k > Len(comps)
  THEN [res |-> IF st.final_entry.tag = "None" THEN Some_Err("EntryNotFound")
                ELSE st.final_entry,
        reads |-> st.reads, lookups |-> st.lookups]
  ELSE IF comps[k] = <<>> THEN path_loop(dev, fb, r, comps, k + 1, st)
  ELSE Bind(find_entry(dev, fb, r, st.current_block, comps[k]), LAMBDA e :
         IF e.res.tag # "Ok"
         THEN [res |-> e.res, reads |-> st.reads + e.reads,
               lookups |-> st.lookups + 1]
         ELSE path_loop(dev, fb, r, comps, k + 1,
                [current_block |-> IF entry_is_dir(e.res) THEN e.res.block
                                   ELSE st.current_block,
                 final_entry |-> e.res, reads |-> st.reads + e.reads,
                 lookups |-> st.lookups + 1]))

\* AffsReader::find_path
find_path(dev, fb, r, path) ==
  path_loop(dev, fb, r, split_from(path, 1, <<>>, <<>>), 1,
            [current_block |-> r.root_block, final_entry |-> None,
             reads |-> 0, lookups |-> 0])

\* the bytes of the paths: the slash, "A", "B"
PathBytes == {47, 65, 66}

Paths == UNION {[1..n -> PathBytes] : n \in 0..MaxPathLen}

\* the reader is opened on the device of VolumeBlocks, with the
\* international flag or without
InitPath ==
  /\ \E flags \in {1, 1 + DOSFS_INTL} :
        call = [op |-> "new",
                boot |-> [BootPlain(4) EXCEPT ![0] = BeWord(68, 79, 83, flags)],
                r |-> with_size([BootPlain(4) EXCEPT
                                   ![0] = BeWord(68, 79, 83, flags)],
                                NoFail, 16).r,
                path |-> <<>>, fb |-> NoFail, res |-> None, reads |-> 0,
                lookups |-> 0]
  /\ dimage = NoDir
  /\ diter = NoDir
  /\ dlast = NoDir
  /\ yielded = <<>>
  /\ dops = 0
  /\ image = NoDir
  /\ reader = NoDir
  /\ last = NoDir
  /\ shadow = NoShadow
  /\ sync = "none"
  /\ clean = TRUE
  /\ gpos = 0
  /\ ops = 0

\* find_path takes &self and leaves the reader as it is: one call is
\* looked at
FindPath(path, fb) ==
  /\ call.op = "new"
  /\ \E c \in {find_path(Device(call.boot), fb, call.r, path)} :
        call' = [call EXCEPT !.op = "find_path", !.path = path, !.fb = fb,
                             !.res = c.res, !.reads = c.reads,
                             !.lookups = c.lookups]
  /\ UNCHANGED <<fvars, dvars>>

NextPath == \E path \in Paths, fb \in {NoFail, 10, 13} : FindPath(path, fb)

SpecPath == InitPath /\ [][NextPath]_vars

(***************************************************************************)
(* AmigaDate (src/src/date.rs, src/src/constants.rs)                       *)
(***************************************************************************)
SECONDS_PER_DAY == 86400

SECONDS_PER_MINUTE == 60

TICKS_PER_SECOND == 50

\* the constant of to_unix_timestamp
EPOCH_OFFSET == 2922 * SECONDS_PER_DAY

\* the constant the crate exports
AMIGA_EPOCH_OFFSET == 252288000

\* a / b of two i64, rounded toward zero
i64_div(a, b) == IF a >= 0 THEN a \div b ELSE 0 - ((0 - a) \div b)

\* AmigaDate::new
AmigaDate_new(days, mins, ticks) ==
  [days |-> days, mins |-> mins, ticks |-> ticks]

\* AmigaDate::to_unix_timestamp; the i32 fields are widened to i64 first, so
\* no step can overflow
to_unix_timestamp(d) ==
  d.days * SECONDS_PER_DAY
  + d.mins * SECONDS_PER_MINUTE
  + i64_div(d.ticks, TICKS_PER_SECOND)
  + EPOCH_OFFSET

\* the field values of the dates: around zero, a year, a day's last minute,
\* ticks around the second
DateDays == {0 - 1, 0, 1, 365, 2922, 17000}

DateMins == {0 - 1, 0, 1, 60, 1439}

DateTicks == {0 - 50, 0 - 49, 0 - 1, 0, 1, 49, 50, 100, 2999}

InitDate ==
  /\ \E days \in DateDays, mins \in DateMins, ticks \in DateTicks :
        call = [op |-> "new", date |-> AmigaDate_new(days, mins, ticks),
                res |-> 0]
  /\ dimage = NoDir
  /\ diter = NoDir
  /\ dlast = NoDir
  /\ yielded = <<>>
  /\ dops = 0
  /\ image = NoDir
  /\ reader = NoDir
  /\ last = NoDir
  /\ shadow = NoShadow
  /\ sync = "none"
  /\ clean = TRUE
  /\ gpos = 0
  /\ ops = 0

\* to_unix_timestamp takes the date by value
ToUnixTimestamp ==
  /\ call.op = "new"
  /\ call' = [call EXCEPT !.op = "to_unix_timestamp",
                          !.res = to_unix_timestamp(call.date)]
  /\ UNCHANGED <<fvars, dvars>>

NextDate == ToUnixTimestamp

SpecDate == InitDate /\ [][NextDate]_vars

(***************************************************************************)
(* The checksums word by word and four words at a time                     *)
(* (src/src/checksum.rs).  A buffer of n words is the function from        *)
(* 0..n-1 to its big-endian words; a u32x4 is a tuple of four words.       *)
(***************************************************************************)
\* u32::wrapping_sub
wrapping_sub(a, b) == wrapping_add(a, wrapping_neg(b))

\* u32x4 += u32x4, u32x4 -= u32x4: lane by lane, wrapping
u32x4_add(x, y) == [k \in 1..4 |-> wrapping_add(x[k], y[k])]

u32x4_sub(x, y) == [k \in 1..4 |-> wrapping_sub(x[k], y[k])]

\* the wrapping sum of the four lanes, added to `sum` in lane order
lanes_sum(sum, x) ==
  wrapping_add(wrapping_add(wrapping_add(wrapping_add(sum, x[1]), x[2]),
                            x[3]), x[4])

\* one iteration of the word loop of normal_sum_slice_scalar and of the
\* loop of normal_sum_slice_simd over the remaining words
word_step(buf, num_words, checksum_word, s) ==
  IF ~(s.i < num_words) THEN [s EXCEPT !.done = TRUE]
  ELSE [s EXCEPT !.i = s.i + 1,
                 !.sum = IF s.i # checksum_word
                         THEN wrapping_add(s.sum, buf[s.i]) ELSE s.sum]

\* the loop over the remaining words that adds the checksum word as well
word_step_no_skip(buf, num_words, checksum_word, s) ==
  IF ~(s.i < num_words) THEN [s EXCEPT !.done = TRUE]
  ELSE [s EXCEPT !.i = s.i + 1, !.sum = wrapping_add(s.sum, buf[s.i])]

\* normal_sum_slice_scalar on a buffer of num_words words, word after word
normal_sum_slice_words(buf, num_words, checksum_offset) ==
  wrapping_neg(Iter(LAMBDA t : word_step(buf, num_words,
                                         checksum_offset \div 4, t),
                    [i |-> 0, sum |-> 0, done |-> FALSE], num_words + 1).sum)

\* one iteration of the loop of normal_sum_slice_simd over groups of four
\* words: the checksum word enters its lane as 0
group_step(buf, num_words, checksum_word, s) ==
  IF ~(s.i + 4 <= num_words) THEN [s EXCEPT !.done = TRUE]
  ELSE [s EXCEPT !.i = s.i + 4,
                 !.sum_vec = u32x4_add(s.sum_vec,
                    [k \in 1..4 |-> IF s.i + k - 1 = checksum_word THEN 0
                                    ELSE buf[s.i + k - 1]])]

\* normal_sum_slice_simd that skips the checksum word in the groups of four
\* only; C25 does not hold of it
normal_sum_slice_simd_tail_adds(buf, num_words, checksum_offset) ==
  Bind(Iter(LAMBDA t : group_step(buf, num_words, checksum_offset \div 4, t),
            [i |-> 0, sum_vec |-> <<0, 0, 0, 0>>, done |-> FALSE],
            num_words \div 4 + 1), LAMBDA g :
    wrapping_neg(Iter(LAMBDA t : word_step_no_skip(buf, num_words,
                                         checksum_offset \div 4, t),
                      [i |-> g.i, sum |-> lanes_sum(0, g.sum_vec),
                       done |-> FALSE], 4).sum))

\* normal_sum_slice_simd on a buffer of num_words words
normal_sum_slice_simd(buf, num_words, checksum_offset) ==
  Bind(Iter(LAMBDA t : group_step(buf, num_words, checksum_offset \div 4, t),
            [i |-> 0, sum_vec |-> <<0, 0, 0, 0>>, done |-> FALSE],
            num_words \div 4 + 1), LAMBDA g :
    wrapping_neg(Iter(LAMBDA t : word_step(buf, num_words,
                                           checksum_offset \div 4, t),
                      [i |-> g.i, sum |-> lanes_sum(0, g.sum_vec),
                       done |-> FALSE], 4).sum))

\* sum + d with the carry added back, as in boot_sum
carry_add(sum, d) ==
  Bind(wrapping_add(sum, d), LAMBDA new_sum :
    wrapping_add(new_sum, IF u32_lt(new_sum, sum) THEN 1 ELSE 0))

\* the words of one batch of boot_sum_simd, from word i on: four words, or
\* those that are left and zeros
boot_batch(buf, i) ==
  IF i + 3 < BOOT_BLOCK_SIZE \div 4
  THEN [j \in 1..4 |-> buf[i + j - 1]]
  ELSE [j \in 1..4 |->
          IF j - 1 < Min(BOOT_BLOCK_SIZE \div 4 - i, 4) THEN buf[i + j - 1]
          ELSE 0]

\* the inner loop of boot_sum_simd: every word of the batch that is not 0
\* is added with carry
RECURSIVE batch_add(_, _, _)
batch_add(sum, words, j) ==
  IF j > 4 THEN sum
  ELSE batch_add(IF words[j] # 0 THEN carry_add(sum, words[j]) ELSE sum,
                 words, j + 1)

\* one iteration of the loop of boot_sum_simd, i = 2, 6, ..., 254
boot_simd_step(buf, s) ==
  IF ~(s.i < BOOT_BLOCK_SIZE \div 4) THEN [s EXCEPT !.done = TRUE]
  ELSE [s EXCEPT !.i = s.i + 4,
                 !.sum = batch_add(s.sum, boot_batch(buf, s.i), 1)]

\* boot_sum_simd
boot_sum_simd(buf) ==
  (0 - 1) - Iter(LAMBDA t : boot_simd_step(buf, t),
                 [i |-> 2, sum |-> carry_add(0, buf[0]), done |-> FALSE],
                 BOOT_BLOCK_SIZE \div 16 + 1).sum

\* one iteration of the loop of bitmap_sum_scalar over the words 1..127
bitmap_step(buf, s) ==
  IF ~(s.i < BLOCK_SIZE \div 4) THEN [s EXCEPT !.done = TRUE]
  ELSE [s EXCEPT !.i = s.i + 1, !.sum = wrapping_sub(s.sum, buf[s.i])]

\* bitmap_sum_scalar
bitmap_sum_scalar(buf) ==
  Iter(LAMBDA t : bitmap_step(buf, t), [i |-> 1, sum |-> 0, done |-> FALSE],
       BLOCK_SIZE \div 4).sum

\* one iteration of the loop of bitmap_sum_simd over the groups that start
\* at the words 1, 5, ..., 121
bitmap_group_step(buf, s) ==
  IF ~(s.i < 125) THEN [s EXCEPT !.done = TRUE]
  ELSE [s EXCEPT !.i = s.i + 4,
                 !.sum_vec = u32x4_sub(s.sum_vec,
                                       [k \in 1..4 |-> buf[s.i + k - 1]])]

\* bitmap_sum_simd: the groups, then the words 125, 126, 127, then the
\* lanes
bitmap_sum_simd(buf) ==
  Bind(Iter(LAMBDA t : bitmap_group_step(buf, t),
            [i |-> 1, sum_vec |-> <<0, 0, 0, 0>>, done |-> FALSE], 32),
       LAMBDA g :
    lanes_sum(wrapping_sub(wrapping_sub(wrapping_sub(0, buf[125]), buf[126]),
                           buf[127]), g.sum_vec))

\* at most MaxSimdOps words of a buffer are given a value other than 0
MaxSimdOps == 2

\* the lengths in words of the buffers of normal_sum_slice: empty, shorter
\* than a group, groups with and without remaining words, a block
NormalLens == {0, 2, 4, 5, 7, BLOCK_SIZE \div 4}

\* the words that are written: of a short buffer all, of a long one the
\* first and the last ones and those around the skipped word
SimdIdx(fn, len) ==
  IF fn = "normal_sum_slice"
  THEN (IF len <= 8 THEN 0..(len - 1) ELSE {0, 4, 5, 6, len - 2, len - 1})
  ELSE IF fn = "boot_sum" THEN {0, 1, 2, 5, 6, 253, 254, 255}
  ELSE {0, 1, 4, 5, 121, 124, 125, 127}

SimdVals == {1, 0 - 1, I32_MIN, 2147483647}

\* the checksum offsets of normal_sum_slice: every word of a short buffer
\* and none (the offset behind the buffer); of a block the first word, the
\* usual word 5, the last word
SimdOffsets(len) ==
  IF len <= 8 THEN {4 * w : w \in 0..len} ELSE {0, 20, 4 * (len - 1)}

SimdCalls ==
  {[fn |-> "normal_sum_slice", len |-> len, off |-> off] :
     len \in NormalLens, off \in UNION {SimdOffsets(l) : l \in NormalLens}}
  \cup {[fn |-> "boot_sum", len |-> BOOT_BLOCK_SIZE \div 4, off |-> 4],
        [fn |-> "bitmap_sum", len |-> BLOCK_SIZE \div 4, off |-> 0]}

InitSimd ==
  /\ \E c \in SimdCalls :
        /\ c.fn = "normal_sum_slice" => c.off \in SimdOffsets(c.len)
        /\ call = [op |-> "new", fn |-> c.fn, len |-> c.len, off |-> c.off,
                   buf |-> [i \in 0..(c.len - 1) |-> 0], n |-> 0,
                   scalar |-> 0, simd |-> 0]
  /\ dimage = NoDir
  /\ diter = NoDir
  /\ dlast = NoDir
  /\ yielded = <<>>
  /\ dops = 0
  /\ image = NoDir
  /\ reader = NoDir
  /\ last = NoDir
  /\ shadow = NoShadow
  /\ sync = "none"
  /\ clean = TRUE
  /\ gpos = 0
  /\ ops = 0

\* buf[4*i .. 4*i+4] = v
SimdWrite(i, v) ==
  /\ call.op \in {"new", "write"}
  /\ call.n < MaxSimdOps
  /\ i \in SimdIdx(call.fn, call.len) /\ call.buf[i] = 0
  /\ call' = [call EXCEPT !.op = "write", !.buf[i] = v, !.n = call.n + 1]
  /\ UNCHANGED <<fvars, dvars>>

\* normal_sum_slice(buf, off) built without and with the simd feature
NormalSum ==
  /\ call.op \in {"new", "write"} /\ call.fn = "normal_sum_slice"
  /\ call' = [call EXCEPT
       !.op = "sum",
       !.scalar = normal_sum_slice_words(call.buf, call.len, call.off),
       !.simd = normal_sum_slice_simd(call.buf, call.len, call.off)]
  /\ UNCHANGED <<fvars, dvars>>

\* boot_sum(buf) built without and with the simd feature
BootSum ==
  /\ call.op \in {"new", "write"} /\ call.fn = "boot_sum"
  /\ call' = [call EXCEPT !.op = "sum", !.scalar = boot_sum(call.buf),
                          !.simd = boot_sum_simd(call.buf)]
  /\ UNCHANGED <<fvars, dvars>>

\* bitmap_sum(buf) built without and with the simd feature
BitmapSum ==
  /\ call.op \in {"new", "write"} /\ call.fn = "bitmap_sum"
  /\ call' = [call EXCEPT !.op = "sum",
                          !.scalar = bitmap_sum_scalar(call.buf),
                          !.simd = bitmap_sum_simd(call.buf)]
  /\ UNCHANGED <<fvars, dvars>>

NextSimd ==
  \/ \E i \in 0..(BOOT_BLOCK_SIZE \div 4 - 1), v \in SimdVals : SimdWrite(i, v)
  \/ NormalSum
  \/ BootSum
  \/ BitmapSum

SpecSimd == InitSimd /\ [][NextSimd]_vars

(***************************************************************************)
(* AffsReaderVar and VarDirIter (src/src/varblock.rs).  A sector device is *)
(* the function from the sectors that can be read to their 128 words; a    *)
(* buffer of n sectors is the function from 0..128n-1 to its words.        *)
(***************************************************************************)
DOSFS_FFS == 1

DOSFS_DIRCACHE == 4

MAX_LOG_BLOCK_SIZE == 4

MAX_BOOT_BLOCK == 1

SYMLINK_OFFSET == 24

FILE_LOCATION == 200

\* the length of the hash table copy of the directory iterator
VAR_TABLE_LEN == 256

\* buf[off]
buf_byte(buf, off) == WordByte(buf[off \div 4], off % 4)

\* read_u32_be_slice / read_i32_be_slice at an offset that is a multiple of
\* 4; behind the words that were read the buffer holds its zeros
read_u32_be_slice(buf, off) ==
  IF (off \div 4) \in DOMAIN buf THEN buf[off \div 4] ELSE 0

\* (flags & bit) != 0
flag_set(flags, bit) == (flags \div bit) % 2 = 1

\* AffsReaderVar::read_sectors of num sectors from start on, while the
\* sector fb fails: every sector has to be read; the words a failed call
\* leaves in the buffer are never looked at
read_sectors(dev, fb, start, num) ==
  IF \A i \in 0..(num - 1) : (start + i) \in DOMAIN dev /\ start + i # fb
  THEN [ok |-> TRUE,
        buf |-> [k \in 0..(num * (BLOCK_SIZE \div 4) - 1) |->
                   dev[start + k \div (BLOCK_SIZE \div 4)]
                      [k % (BLOCK_SIZE \div 4)]]]
  ELSE [ok |-> FALSE, buf |-> <<>>]

\* the name the variable-size reader takes from a root or entry block
var_name(buf, block_size) ==
  LET name_offset == block_size - FILE_LOCATION + 108
      name_len == Min(buf_byte(buf, name_offset), MAX_NAME_LEN)
  IN [i \in 1..name_len |-> buf_byte(buf, name_offset + i)]

\* AmigaDate::new of the three words at the offset
var_date(buf, off) ==
  AmigaDate_new(read_u32_be_slice(buf, off), read_u32_be_slice(buf, off + 4),
                read_u32_be_slice(buf, off + 8))

\* the checks of probe on a candidate root block that tests the secondary
\* type at the offset 508 of the fixed-size parser; C21 does not hold of it
root_checks_sec_at_508(buf, block_size) ==
  /\ read_u32_be_slice(buf, 0) = T_HEADER
  /\ read_u32_be_slice(buf, 508) = ST_ROOT
  /\ read_u32_be_slice(buf, 12) # 0
  /\ read_u32_be_slice(buf, 20)
       = normal_sum_slice_words(buf, block_size \div 4, 20)

\* the checks of probe on a candidate root block: type, secondary type at
\* the end of the block, hash table size, checksum
root_checks(buf, block_size) ==
  /\ read_u32_be_slice(buf, 0) = T_HEADER
  /\ read_u32_be_slice(buf, block_size - 4) = ST_ROOT
  /\ read_u32_be_slice(buf, 12) # 0
  /\ read_u32_be_slice(buf, 20)
       = normal_sum_slice_words(buf, block_size \div 4, 20)

NoProbe == [found |-> FALSE]

\* the ProbeResult of an accepted root block
ProbeResult(buf, flags, root_block_num, log_blocksize, boot_sector) ==
  LET block_size == 512 * 2 ^ log_blocksize
  IN [found |-> TRUE,
      intl |-> flag_set(flags, DOSFS_INTL) \/ flag_set(flags, DOSFS_DIRCACHE),
      root_block |-> root_block_num,
      log_blocksize |-> log_blocksize,
      block_size |-> block_size,
      hash_table_size |-> read_u32_be_slice(buf, 12),
      boot_sector |-> boot_sector,
      disk_name |-> var_name(buf, block_size),
      creation_date |->
        var_date(buf, block_size - FILE_LOCATION + 420
                        - (BLOCK_SIZE - FILE_LOCATION)),
      last_modified |->
        var_date(buf, block_size - FILE_LOCATION + 472
                        - (BLOCK_SIZE - FILE_LOCATION))]

\* the inner loop of probe, from log_blocksize on
RECURSIVE probe_sizes(_, _, _, _, _, _)
probe_sizes(dev, fb, flags, root_block_num, boot_sector, log_blocksize) ==
  IF log_blocksize > MAX_LOG_BLOCK_SIZE THEN NoProbe
  ELSE Bind(read_sectors(dev, fb, root_block_num * 2 ^ log_blocksize,
                         2 ^ log_blocksize), LAMBDA rd :
         IF rd.ok /\ root_checks(rd.buf, 512 * 2 ^ log_blocksize)
         THEN ProbeResult(rd.buf, flags, root_block_num, log_blocksize,
                          boot_sector)
         ELSE probe_sizes(dev, fb, flags, root_block_num, boot_sector,
                          log_blocksize + 1))

\* the outer loop of probe, from boot_sector on: the boot block must be
\* read, start with "DOS", have the FFS flag and, with boot code, its
\* checksum
RECURSIVE probe_boot(_, _, _)
probe_boot(dev, fb, boot_sector) ==
  IF boot_sector > MAX_BOOT_BLOCK THEN NoProbe
  ELSE Bind(read_sectors(dev, fb, boot_sector, BOOT_BLOCK_SIZE \div BLOCK_SIZE),
            LAMBDA b :
         IF ~b.ok
            \/ <<buf_byte(b.buf, 0), buf_byte(b.buf, 1), buf_byte(b.buf, 2)>>
                 # <<68, 79, 83>>
            \/ ~flag_set(buf_byte(b.buf, 3), DOSFS_FFS)
            \/ (buf_byte(b.buf, 12) # 0
                  /\ read_u32_be_slice(b.buf, 4) # boot_sum(b.buf))
         THEN probe_boot(dev, fb, boot_sector + 1)
         ELSE Bind(probe_sizes(dev, fb, buf_byte(b.buf, 3),
                               read_u32_be_slice(b.buf, 8), boot_sector, 0),
                   LAMBDA p :
                IF p.found THEN p
                ELSE probe_boot(dev, fb, boot_sector + 1)))

\* AffsReaderVar::new: probe, InvalidDosType when nothing is accepted
AffsReaderVar_new(dev, fb) ==
  Bind(probe_boot(dev, fb, 0), LAMBDA p :
    IF p.found THEN [err |-> "", r |-> p]
    ELSE [err |-> "InvalidDosType", r |-> NoProbe])

\* VarDirIter::new
VarDirIter_new(hash_table, hash_table_size, r) ==
  [hash_table |-> hash_table, hash_table_size |-> hash_table_size,
   hash_index |-> 0, current_chain |-> 0,
   log_blocksize |-> r.log_blocksize, block_size |-> r.block_size]

\* AffsReaderVar::read_root_dir: the first min(hash_table_size, 256) slots
\* are copied from the offset 24 on
Var_read_root_dir(dev, fb, r) ==
  Bind(read_sectors(dev, fb, r.root_block * 2 ^ r.log_blocksize,
                    2 ^ r.log_blocksize), LAMBDA rd :
    IF ~rd.ok THEN [err |-> "BlockReadError", it |-> NoDir]
    ELSE [err |-> "",
          it |-> VarDirIter_new(
                   [i \in 0..(VAR_TABLE_LEN - 1) |->
                      IF i < Min(r.hash_table_size, VAR_TABLE_LEN)
                      THEN read_u32_be_slice(rd.buf, SYMLINK_OFFSET + i * 4)
                      ELSE 0],
                   r.hash_table_size, r)])

VarSome(entry) == [tag |-> "Ok", e |-> "", entry |-> entry]

VarErr(x) == [tag |-> "Err", e |-> x, entry |-> NoDir]

VarNone == [tag |-> "None", e |-> "", entry |-> NoDir]

VarPanic == [tag |-> "Panic", e |-> "", entry |-> NoDir]

VarFuel == [tag |-> "Fuel", e |-> "", entry |-> NoDir]

\* VarDirIter::parse_entry
parse_entry(buf, block_size, block) ==
  LET sec_type == read_u32_be_slice(buf, block_size - 4)
  IN IF ~entry_type_known(sec_type) THEN [some |-> FALSE]
     ELSE [some |-> TRUE,
           name |-> var_name(buf, block_size),
           entry_type |-> sec_type,
           block |-> block,
           parent |-> read_u32_be_slice(buf, block_size - 12),
           size |-> read_u32_be_slice(buf, block_size - FILE_LOCATION + 12),
           date |-> var_date(buf, block_size - FILE_LOCATION + 420
                                    - (BLOCK_SIZE - FILE_LOCATION))]

\* the scan of next for a slot that is not 0: the slots from hash_index on
\* are indexed in the copy of VAR_TABLE_LEN words while they are below
\* hash_table_size
var_scan(it) ==
  LET heads == {j \in it.hash_index..(Min(it.hash_table_size, VAR_TABLE_LEN) - 1) :
                  it.hash_table[j] # 0}
  IN IF heads # {}
     THEN Bind(CHOOSE j \in heads : \A k \in heads : j <= k, LAMBDA j :
            [panic |-> FALSE,
             it |-> [it EXCEPT !.hash_index = j + 1,
                               !.current_chain = it.hash_table[j]]])
     ELSE IF it.hash_index < it.hash_table_size
             /\ it.hash_table_size > VAR_TABLE_LEN
     THEN [panic |-> TRUE, it |-> [it EXCEPT !.hash_index = VAR_TABLE_LEN]]
     ELSE [panic |-> FALSE,
           it |-> [it EXCEPT !.hash_index =
                               IF it.hash_index < it.hash_table_size
                               THEN it.hash_table_size ELSE it.hash_index]]

\* one iteration of the loop of VarDirIter::next
var_next_step(dev, fb, s) ==
  IF s.it.current_chain # 0
  THEN Bind(read_sectors(dev, fb,
                         s.it.current_chain * 2 ^ s.it.log_blocksize,
                         2 ^ s.it.log_blocksize), LAMBDA rd :
         IF ~rd.ok
         THEN [s EXCEPT !.done = TRUE, !.res = VarErr("BlockReadError")]
         ELSE Bind(parse_entry(rd.buf, s.it.block_size, s.it.current_chain),
                   LAMBDA e :
                [it |-> [s.it EXCEPT !.current_chain =
                           read_u32_be_slice(rd.buf, s.it.block_size - 16)],
                 res |-> IF e.some THEN VarSome(e) ELSE s.res,
                 done |-> e.some]))
  ELSE Bind(var_scan(s.it), LAMBDA sc :
         IF sc.panic
         THEN [it |-> sc.it, res |-> VarPanic, done |-> TRUE]
         ELSE IF sc.it.current_chain = 0
         THEN [it |-> sc.it, res |-> VarNone, done |-> TRUE]
         ELSE [s EXCEPT !.it = sc.it])

\* VarDirIter::next
VarDirIter_next(dev, fb, it) ==
  Bind(Iter(LAMBDA s : var_next_step(dev, fb, s),
            [it |-> it, res |-> VarFuel, done |-> FALSE], LoopFuel),
       LAMBDA s : [it |-> s.it, res |-> s.res])

(***************************************************************************)
(* Sector devices                                                          *)
(***************************************************************************)
\* a buffer of nwords words with the words f and zeros
BlockWords(nwords, f) ==
  [i \in 0..(nwords - 1) |-> IF i \in DOMAIN f THEN f[i] ELSE 0]

\* the buffer with its checksum word set
Sealed(buf, nwords) ==
  [buf EXCEPT ![5] = wrapping_neg(SumSkip(buf, 5, 0, nwords - 1))]

\* the sectors start, start + 1, ... that hold the buffer
Place(start, buf, nwords) ==
  [sec \in start..(start + nwords \div (BLOCK_SIZE \div 4) - 1) |->
     [k \in 0..(BLOCK_SIZE \div 4 - 1) |->
        buf[(sec - start) * (BLOCK_SIZE \div 4) + k]]]

\* a boot block without boot code
VarBoot(flags, root) ==
  BlockWords(BOOT_BLOCK_SIZE \div 4,
             (0 :> BeWord(68, 79, 83, flags)) @@ (2 :> root))

\* a root block of nwords words in the layout of the fixed-size parser:
\* creation date at 0x1A4, name "AB" at 0x1B0, counted from the end of the
\* block
StdRoot(nwords, hash_table_size, heads) ==
  Sealed(BlockWords(nwords,
           (0 :> T_HEADER) @@ (3 :> hash_table_size)
           @@ [i \in {6 + j : j \in DOMAIN heads} |-> heads[i - 6]]
           @@ ((nwords - 23) :> 5000)
           @@ ((nwords - 20) :> BeWord(2, 65, 66, 0))
           @@ ((nwords - 1) :> ST_ROOT)), nwords)

\* an entry block of nwords words in the layout of the fixed-size parser:
\* size at 0x144, date at 0x1A4, name "A" at 0x1B0, next at 0x1F0, parent
\* at 0x1F4, secondary type at 0x1FC
StdEntry(nwords, sec, next, parent, byte_size) ==
  Sealed(BlockWords(nwords,
           (0 :> T_HEADER) @@ ((nwords - 47) :> byte_size)
           @@ ((nwords - 23) :> 5000)
           @@ ((nwords - 20) :> BeWord(1, 65, 0, 0))
           @@ ((nwords - 4) :> next) @@ ((nwords - 3) :> parent)
           @@ ((nwords - 1) :> sec)), nwords)

\* the blocks of DummyGoodDevice: the names "test" and "file" are written
\* at block_size - FILE_LOCATION + 108, the entry block has no checksum
TestRoot ==
  Sealed(BlockWords(BLOCK_SIZE \div 4,
           (0 :> T_HEADER) @@ (3 :> 4) @@ (6 :> 5)
           @@ (105 :> BeWord(4, 116, 101, 115))
           @@ (106 :> BeWord(116, 0, 0, 0))
           @@ (127 :> ST_ROOT)), BLOCK_SIZE \div 4)

TestEntry ==
  BlockWords(BLOCK_SIZE \div 4,
    (0 :> T_HEADER) @@ (81 :> 123)
    @@ (105 :> BeWord(4, 102, 105, 108)) @@ (106 :> BeWord(101, 0, 0, 0))
    @@ (125 :> 2) @@ (127 :> ST_FILE))

VarDev(name, sectors) == [name |-> name, sectors |-> sectors]

\* a volume with 512-byte blocks in the layout of the fixed-size parser:
\* the root holds the files of the blocks 5 and 6 on one chain
VStd ==
  VarDev("std_512",
    Place(0, VarBoot(1, 2), 256)
    @@ Place(2, StdRoot(128, HASH_TABLE_SIZE, (0 :> 5)), 128)
    @@ Place(5, StdEntry(128, ST_FILE, 6, 2, 123), 128)
    @@ Place(6, StdEntry(128, ST_FILE, 0, 2, 7), 128))

VTest ==
  VarDev("test", Place(0, VarBoot(1, 2), 256) @@ Place(2, TestRoot, 128)
                 @@ Place(5, TestEntry, 128))

\* sector 0 is no boot block, the boot block is in the sectors 1 and 2
VBoot1 ==
  VarDev("boot_1",
    Place(0, BlockWords(128, <<>>), 128)
    @@ Place(1, VarBoot(1 + DOSFS_INTL, 3), 256)
    @@ Place(3, StdRoot(128, HASH_TABLE_SIZE, (1 :> 5)), 128)
    @@ Place(5, StdEntry(128, ST_DIR, 0, 3, 0), 128))

\* an OFS boot block in front of a root block that passes every check
VOfs ==
  VarDev("ofs",
    Place(0, VarBoot(0, 2), 256)
    @@ Place(2, StdRoot(128, HASH_TABLE_SIZE, <<>>), 128))

\* 1024-byte blocks: the root block 2 is in the sectors 4 and 5, the
\* entry block 5 in the sectors 10 and 11
V1024 ==
  VarDev("ffs_1024",
    Place(0, VarBoot(1, 2), 256)
    @@ Place(4, StdRoot(256, 200, (0 :> 5)), 256)
    @@ Place(10, StdEntry(256, ST_FILE, 0, 2, 99), 256))

\* the same with a sector 2 that has the tags of a root block and a wrong
\* checksum
VDecoy ==
  VarDev("decoy",
    V1024.sectors
    @@ Place(2, [StdRoot(128, HASH_TABLE_SIZE, <<>>) EXCEPT ![5] = 1], 128))

\* the candidate of 1024 bytes has ROOT at the offset 508 and not at its
\* end
VSec508 ==
  VarDev("sec_508",
    Place(0, VarBoot(1, 2), 256)
    @@ Place(4, Sealed(BlockWords(256, (0 :> T_HEADER) @@ (3 :> 200)
                                       @@ (127 :> ST_ROOT)), 256), 256))

\* a root block of 512 bytes and one of 1024 bytes pass the checks
VBoth ==
  VarDev("both",
    Place(0, VarBoot(1, 2), 256)
    @@ Place(2, StdRoot(128, HASH_TABLE_SIZE, <<>>), 128)
    @@ Place(4, StdRoot(256, 200, <<>>), 256))

\* boot code with a wrong checksum in the boot block of sector 0, a boot
\* block without boot code in the sectors 1 and 2
VCodeBad ==
  VarDev("code_bad",
    Place(0, [VarBoot(1, 3) EXCEPT ![3] = BeWord(96, 0, 0, 0)], 128)
    @@ Place(1, VarBoot(1, 3), 256)
    @@ Place(3, StdRoot(128, HASH_TABLE_SIZE, <<>>), 128))

\* boot code with its checksum
VCodeGood ==
  VarDev("code_good",
    Place(0, BootCode, 256)
    @@ Place(4, StdRoot(128, HASH_TABLE_SIZE, <<>>), 128))

\* the root block has the hash table size 0
VHtZero ==
  VarDev("ht_zero",
    Place(0, VarBoot(1, 2), 256) @@ Place(2, StdRoot(128, 0, <<>>), 128))

\* 2048-byte blocks with the hash table size (2048 - 224) / 4 = 456: the
\* root block 2 is in the sectors 8..11, the entry block 5 in 20..23
V2048 ==
  VarDev("ffs_2048",
    Place(0, VarBoot(1, 2), 256)
    @@ Place(8, StdRoot(512, 456, (0 :> 5)), 512)
    @@ Place(20, StdEntry(512, ST_FILE, 0, 2, 10), 512))

\* 512-byte blocks and a root block that gives the hash table size 300
VHt300 ==
  VarDev("ht_300",
    Place(0, VarBoot(1, 2), 256)
    @@ Place(2, StdRoot(128, 300, <<>>), 128))

\* no sector can be read
VNone == VarDev("none", <<>>)

VarDevices ==
  {VStd, VTest, VBoot1, VOfs, V1024, VDecoy, VSec508, VBoth, VCodeBad,
   VCodeGood, VHtZero, V2048, VHt300, VNone}

\* the sectors that fail in a call
VarFails == {NoFail, 0, 2, 5}

\* at most MaxVarOps calls of next on a reader
MaxVarOps == 3

InitVar ==
  /\ \E d \in VarDevices :
        call = [op |-> "init", dev |-> d.name, sectors |-> d.sectors,
                fb |-> NoFail, err |-> "", r |-> NoProbe, it |-> NoDir,
                res |-> VarNone, n |-> 0]
  /\ dimage = NoDir
  /\ diter = NoDir
  /\ dlast = NoDir
  /\ yielded = <<>>
  /\ dops = 0
  /\ image = NoDir
  /\ reader = NoDir
  /\ last = NoDir
  /\ shadow = NoShadow
  /\ sync = "none"
  /\ clean = TRUE
  /\ gpos = 0
  /\ ops = 0

\* AffsReaderVar::new(device, total_sectors)
VarNew(fb) ==
  /\ call.op = "init"
  /\ \E c \in {AffsReaderVar_new(call.sectors, fb)} :
        call' = [call EXCEPT !.op = "new", !.fb = fb, !.err = c.err,
                             !.r = c.r]
  /\ UNCHANGED <<fvars, dvars>>

\* reader.read_root_dir()
VarReadRootDir(fb) ==
  /\ call.op = "new" /\ call.r.found
  /\ \E c \in {Var_read_root_dir(call.sectors, fb, call.r)} :
        call' = [call EXCEPT !.op = "read_root_dir", !.fb = fb,
                             !.err = c.err, !.it = c.it]
  /\ UNCHANGED <<fvars, dvars>>

\* iter.next()
VarNext(fb) ==
  /\ call.op \in {"read_root_dir", "next"} /\ call.it # NoDir
  /\ call.n < MaxVarOps
  /\ call.res.tag \notin {"Panic", "Fuel"}
  /\ \E c \in {VarDirIter_next(call.sectors, fb, call.it)} :
        call' = [call EXCEPT !.op = "next", !.fb = fb, !.it = c.it,
                             !.res = c.res, !.n = call.n + 1]
  /\ UNCHANGED <<fvars, dvars>>

NextVar ==
  \E fb \in VarFails :
     \/ VarNew(fb)
     \/ VarReadRootDir(fb)
     \/ VarNext(fb)

SpecVar == InitVar /\ [][NextVar]_vars

(***************************************************************************)
(* The byte stream a file stands for, read off the image                   *)
(***************************************************************************)
\* the block at pointer p, an all-zero block if p is outside the image
BlockAt(img, p) == IF p \in DOMAIN img.blocks THEN img.blocks[p] ELSE ZeroBuf

\* the block holding the pointers of logical blocks 72j .. 72j+71: the
\* header for j = 0, the j-th extension block of the chain otherwise
RECURSIVE Holder(_, _)
Holder(img, j) ==
  IF j = 0 THEN img.blocks[img.hdr]
  ELSE BlockAt(img, Holder(img, j - 1).w504)

LogicalBlock(img, k) ==
  Holder(img, k \div MAX_DATABLK).tbl[MAX_DATABLK - 1 - (k % MAX_DATABLK)]

FileSize(img) == img.blocks[img.hdr].w324

NumBlocks(img) == (FileSize(img) + FFS_DATA_SIZE - 1) \div FFS_DATA_SIZE

\* header and extension chain describe exactly the blocks the size needs
WellFormedFfs(img) ==
  /\ img.fs = "Ffs"
  /\ \A j \in 0..((NumBlocks(img) - 1) \div MAX_DATABLK) :
        /\ j > 0 => FileExtBlock_parse(Holder(img, j)).err = ""
        /\ Holder(img, j).w8 = Min(MAX_DATABLK, NumBlocks(img) - MAX_DATABLK * j)
  /\ \A k \in 0..(NumBlocks(img) - 1) :
        LogicalBlock(img, k) # 0 /\ LogicalBlock(img, k) \in DOMAIN img.blocks

\* byte p of an FFS file: <<block, offset in the block>>
FfsByteAt(img, p) ==
  <<LogicalBlock(img, p \div FFS_DATA_SIZE), p % FFS_DATA_SIZE>>

\* byte p of the payloads of the next_data chain starting at block b
RECURSIVE OfsWalk(_, _, _, _)
OfsWalk(img, b, p, fuel) ==
  IF b = 0 \/ b \notin DOMAIN img.blocks \/ fuel = 0 THEN <<NoId, 0>>
  ELSE IF p < img.blocks[b].w12 THEN <<b, HEADER_SIZE + p>>
  ELSE OfsWalk(img, img.blocks[b].w16, p - img.blocks[b].w12, fuel - 1)

\* byte p of an OFS file: <<block, offset in the block>>
OfsByteAt(img, p) ==
  IF p >= FileSize(img) THEN <<NoId, 0>>
  ELSE OfsWalk(img, img.blocks[img.hdr].w16, p, MaxChain)

\* every OFS data block declares at most 488 bytes
OfsSizesInRange(img) ==
  /\ img.fs = "Ofs"
  /\ \A b \in DOMAIN img.blocks :
        img.blocks[b].w0 = T_DATA => img.blocks[b].w12 <= OFS_DATA_SIZE

RECURSIVE SumLen(_, _, _)
SumLen(out, lo, hi) ==
  IF lo > hi THEN 0
  ELSE IF lo = hi THEN out[lo][3]
  ELSE SumLen(out, lo, (lo + hi) \div 2) + SumLen(out, (lo + hi) \div 2 + 1, hi)

\* the segments `out`, delivered from stream position `from` on, are the
\* bytes ByteAt names for these positions
SegmentsAre(ByteAt(_), from, out) ==
  \A i \in 1..Len(out) :
     LET q == from + SumLen(out, 1, i - 1)
         seg == out[i]
     IN /\ seg[3] >= 1
        /\ ByteAt(q) = <<seg[1], seg[2]>>
        /\ ByteAt(q + seg[3] - 1) = <<seg[1], seg[2] + seg[3] - 1>>

(***************************************************************************)
(* Claims on the file reader                                               *)
(***************************************************************************)
\* the model never runs out of loop iterations
LoopsFinish == last.res.tag # "Fuel"

\* C1: a read with a non-empty buffer returns Ok(0) only when remaining()
\* was 0 before the call, and a successful read returns fewer bytes than the
\* buffer holds only when remaining() is 0 after the call
C1_ReadEof ==
  (last.op = "read" /\ last.arg > 0 /\ last.res.tag = "Ok") =>
     /\ last.res.n = 0 => remaining(last.pre) = 0
     /\ last.res.n < last.arg => remaining(reader) = 0

\* C2: on a well-formed FFS file the reads deliver, whatever the buffer
\* sizes, the bytes of logical blocks 0, 1, 2, ... in order, 512 of each but
\* the last, logical block k being table slot 71-(k mod 72) of the header or
\* of the (k div 72)-th extension block; every read with the device working
\* succeeds and delivers min(buffer length, bytes left) bytes
C2_FfsStream ==
  (WellFormedFfs(image) /\ last.clean_pre /\ last.op = "read") =>
     /\ last.fb = NoFail => last.res.tag = "Ok"
     /\ last.res.tag = "Ok" =>
          /\ last.res.n = Min(last.arg, FileSize(image) - last.gpos_pre)
          /\ SumLen(last.out, 1, Len(last.out)) = last.res.n
          /\ SegmentsAre(LAMBDA q : FfsByteAt(image, q), last.gpos_pre, last.out)

\* C2 witness: one read delivers the last block of the header table and the
\* first block of the extension block
C2_Witness ==
  /\ WellFormedFfs(image) /\ last.clean_pre /\ last.op = "read"
  /\ last.res.tag = "Ok"
  /\ \E i \in 1..(Len(last.out) - 1) :
        /\ last.out[i] = <<LogicalBlock(image, MAX_DATABLK - 1), 0, 512>>
        /\ last.out[i + 1][1] = LogicalBlock(image, MAX_DATABLK)
        /\ last.out[i + 1][1] = Holder(image, 1).tbl[MAX_DATABLK - 1]

\* C3: on an OFS file whose data blocks declare 0..488 bytes the reads
\* deliver the payloads [24, 24+data_size) of the next_data chain in order,
\* truncated to file_size, and a read reports 0 bytes for a non-empty buffer
\* only when that stream is exhausted
C3_OfsStream ==
  (OfsSizesInRange(image) /\ last.clean_pre /\ last.op = "read"
   /\ last.res.tag = "Ok") =>
     /\ SumLen(last.out, 1, Len(last.out)) = last.res.n
     /\ SegmentsAre(LAMBDA q : OfsByteAt(image, q), last.gpos_pre, last.out)
     /\ (last.res.n = 0 /\ last.arg > 0) => OfsByteAt(image, gpos)[1] = NoId

\* C4: no copy of read leaves the 512-byte block buffer: read never panics
C4_NoOutOfBounds == last.res.tag # "Panic"

\* C5, for well-formed FFS files: after a successful seek(p), position() = p
\* and the following reads return what a freshly constructed reader returns
\* after reading p bytes; a backward seek leaves the state of reset()
\* followed by a seek to p
C5_SeekEquiv ==
  WellFormedFfs(image) =>
    /\ (last.op = "seek" /\ last.res.tag = "Ok") =>
          /\ position(reader) = last.arg
          /\ last.arg < position(last.pre) =>
               reader = seek(image, last.fb, reset(last.pre), last.arg).r
    /\ (sync = "seek" /\ last.op = "read") =>
          last.res = shadow.res /\ last.out = shadow.out

\* C6: seek(p) with p > size() returns EndOfFile without a device read and
\* without changing the reader; seek(p) with p = position() returns Ok and
\* changes nothing, also for p = size()
C6_SeekNoEffect ==
  /\ (last.op = "seek" /\ last.arg > size(last.pre)) =>
        last.res = Err("EndOfFile") /\ last.reads = 0 /\ reader = last.pre
  /\ (last.op = "seek" /\ last.arg = position(last.pre)) =>
        last.res = Ok(0) /\ last.reads = 0 /\ reader = last.pre

\* C6 witness: a seek past the end from the middle of a block
C6_Witness ==
  /\ last.op = "seek" /\ last.arg > size(last.pre)
  /\ last.pre.offset_in_block > 0 /\ last.pre.remaining > 0

\* the traversal state: every field but the block buffer
Traversal(r) == [f \in DOMAIN r \ {"buf"} |-> r[f]]

\* C7: reset() reads no block and restores the traversal state captured at
\* construction, and the reads that follow return what the reads of a freshly
\* constructed reader return
C7_Reset ==
  /\ last.op = "reset" =>
        last.reads = 0 /\ Traversal(reader) = Traversal(Fresh(image))
  /\ (sync = "reset" /\ last.op = "read") =>
        last.res = shadow.res /\ last.out = shadow.out

\* C7 witness: bytes are read after a reset that was made with an extension
\* block loaded
C7_Witness ==
  /\ sync = "reset" /\ last.op = "read" /\ last.res.tag = "Ok"
  /\ last.res.n > 0
  /\ shadow.from.next_extension # shadow.from.initial_extension

\* C8: read_all returns BufferTooSmall exactly when the buffer is shorter
\* than remaining(), then without a device read or a state change; otherwise,
\* unless a read fails with an error, it returns Ok(remaining() before the
\* call) and leaves the reader at end of file
C8_ReadAll ==
  last.op = "read_all" =>
     /\ (last.res = Err("BufferTooSmall")) = (last.arg < remaining(last.pre))
     /\ last.res = Err("BufferTooSmall") =>
          last.reads = 0 /\ reader = last.pre
     /\ (last.arg >= remaining(last.pre) /\ last.res.tag = "Ok") =>
          last.res = Ok(remaining(last.pre)) /\ is_eof(reader)

\* C27: a read that returns Err leaves position() and the block cursor,
\* that is every field but the block buffer, as they were before the call
C27_ErrKeepsState ==
  (last.op = "read" /\ last.res.tag = "Err") =>
     Traversal(reader) = Traversal(last.pre)

\* C29: every read ends, also when the extension chain or the OFS data chain
\* runs in a cycle: an iteration loads at most one extension block and one
\* data block and then copies at least one byte or ends the call, so the
\* device reads of a call are at most twice the copies plus two; the bytes a
\* call copies are taken off remaining(), which never falls below zero, so
\* the bytes returned since the last reset never exceed size()
C29_ReadTerminates ==
  last.op = "read" =>
     /\ last.res.tag \in {"Ok", "Err", "Panic"}
     /\ last.reads <= 2 * (Len(last.out) + 1)
     /\ \A i \in 1..Len(last.out) : last.out[i][3] >= 1
     /\ SumLen(last.out, 1, Len(last.out))
          = remaining(last.pre) - remaining(reader)
     /\ remaining(reader) >= 0
     /\ last.res.tag = "Ok" => last.res.n = SumLen(last.out, 1, Len(last.out))
     /\ position(reader) <= size(reader)

\* a read on a file whose chain runs in a cycle went round the cycle and
\* ended
C29_Witness ==
  /\ image.name \in {"ffs_ext_cycle", "ofs_cycle"}
  /\ last.op = "read" /\ last.fb = NoFail
  /\ last.reads >= 2
  /\ last.res.tag \in {"Ok", "Err"}

\* C30: after any calls, failed ones included, remaining() <= size(),
\* position() + remaining() = size() in u32 arithmetic without wrapping, and
\* is_eof() exactly when position() = size()
C30_Counters ==
  /\ 0 <= remaining(reader) /\ remaining(reader) <= size(reader)
  /\ 0 <= position(reader) /\ position(reader) <= size(reader)
  /\ position(reader) + remaining(reader) = size(reader)
  /\ is_eof(reader) <=> position(reader) = size(reader)

\* a read failed part way and a later call went on from there
C30_Witness ==
  /\ ~clean /\ last.op \in {"read", "seek"} /\ ~last.clean_pre
  /\ 0 < remaining(reader) /\ remaining(reader) < size(reader)

C10_ErrOnce ==
  (dlast.op = "next" /\ dlast.working) =>
     /\ (dlast.pre.current_chain # 0
         /\ ~read_block(dimage, dlast.fb, dlast.pre.current_chain).ok) =>
            dlast.res = Some_Err("BlockReadError")
     /\ dlast.failed => dlast.res.tag = "None"

\* what a call of next has to return when it starts at chain block b with
\* the buckets from hi on still to come and the block fb unreadable: the
\* first block on the way that is not a decoding entry with an unrecognized
\* secondary type decides; [tag |-> "Long"] when the way has more than
\* `fuel` steps
RECURSIVE WalkFrom(_, _, _, _, _)
WalkFrom(img, fb, b, hi, fuel) ==
  IF fuel = 0 THEN [tag |-> "Long"]
  ELSE IF b = 0
  THEN LET js == {j \in hi..(HASH_TABLE_SIZE - 1) : img.hash_table[j] # 0}
           j0 == CHOOSE j \in js : \A k \in js : j <= k
       IN IF js = {} THEN None
          ELSE WalkFrom(img, fb, img.hash_table[j0], j0 + 1, fuel - 1)
  ELSE IF b \notin DOMAIN img.blocks \/ b = fb
  THEN Some_Err("BlockReadError")
  ELSE IF img.blocks[b].w0 # T_HEADER THEN Some_Err("InvalidBlockType")
  ELSE IF img.blocks[b].w20 # normal_sum(img.blocks[b])
  THEN Some_Err("ChecksumMismatch")
  ELSE IF entry_type_known(img.blocks[b].w508)
  THEN Some_Ok([block |-> b, entry_type |-> img.blocks[b].w508])
  ELSE WalkFrom(img, fb, img.blocks[b].w496, hi, fuel - 1)

\* C12: a call of next passes over every decoding entry with an
\* unrecognized secondary type, going on with its next_same_hash, and
\* returns what the first other block on its way gives: the entry, or
\* Err for a block that cannot be read, has another type tag or a wrong
\* checksum; an Ok item never has an unrecognized secondary type, an Err
\* item is never InvalidSecType, and after an Ok item the iterator stands
\* at the next_same_hash of the yielded entry
C12_SkipUnknown ==
  dlast.op = "next" =>
    LET w == WalkFrom(dimage, dlast.fb, dlast.pre.current_chain,
                      dlast.pre.hash_index, 2 * MaxChain)
    IN /\ w.tag # "Long" => dlast.res = w
       /\ dlast.res.tag = "Ok" =>
             /\ entry_type_known(dlast.res.entry_type)
             /\ dlast.res.entry_type = dimage.blocks[dlast.res.block].w508
             /\ diter.current_chain = dimage.blocks[dlast.res.block].w496
       /\ dlast.res.tag = "Err" =>
             dlast.res.e \in {"BlockReadError", "InvalidBlockType",
                              "ChecksumMismatch"}

\* C12 witness: a call that started at a decoding entry with an
\* unrecognized secondary type read on and returned the entry after it
C12_Witness ==
  /\ dlast.op = "next" /\ dlast.res.tag = "Ok" /\ dlast.reads = 2
  /\ dlast.pre.current_chain \in DOMAIN dimage.blocks
  /\ EntryBlock_parse(dimage.blocks[dlast.pre.current_chain]).err = ""
  /\ ~entry_type_known(dimage.blocks[dlast.pre.current_chain].w508)
  /\ dlast.res.block = dimage.blocks[dlast.pre.current_chain].w496

\* C11, for the calls: every call of next and of find returns, that is,
\* its loop ends within LoopFuel iterations, more than any chain here has
\* blocks
C11_CallsReturn ==
  dlast.op \in {"next", "find"} => dlast.res.tag # "Fuel"

\* the chain find(name) walks: the one of the bucket of the name's hash
FindChain ==
  Chain(dimage,
        dimage.hash_table[hash_name(dlast.name, dlast.pre.intl)], MaxChain)

\* the stored name of block b equals the name find was called with
NameMatches(b) ==
  /\ EntryBlock_parse(dimage.blocks[b]).err = ""
  /\ names_equal(EntryBlock_parse(dimage.blocks[b]).name, dlast.name,
                 dlast.pre.intl)

\* the place on FindChain of the first block that the device fails to
\* read, that does not decode or whose name matches; 0 when there is none
FirstStop ==
  LET c == FindChain
      stops == {i \in 1..Len(c) :
                  \/ c[i] = dlast.fb
                  \/ EntryBlock_parse(dimage.blocks[c[i]]).err # ""
                  \/ NameMatches(c[i])}
  IN IF stops = {} THEN 0
     ELSE CHOOSE i \in stops : \A j \in stops : i <= j

\* C13 as stated, for a name of 1..30 bytes: on chains that end and decode,
\* with the device working, find returns the first entry of the chain whose name matches,
\* or EntryNotFound when there is none
C13_AsStated ==
  (/\ dlast.op = "find" /\ Len(dlast.name) \in 1..MAX_NAME_LEN
   /\ dlast.working /\ GoodDir(dimage)) =>
     IF FirstStop = 0 THEN dlast.res = Some_Err("EntryNotFound")
     ELSE dlast.res.tag = "Ok" /\ dlast.res.block = FindChain[FirstStop]

\* C13: find(name) with a name of at most 30 bytes reads only blocks on
\* the chain of the bucket hash_name(name, intl), in chain order, up to the
\* first block that fails to read, does not decode or has a matching name;
\* it returns the read or decoding error of that block, or the entry when
\* its secondary type is recognized and InvalidSecType when it is not; it
\* returns EntryNotFound when the chain ends without such a block; a name
\* of more than 30 bytes yields NameTooLong without any device read
C13_Find ==
  dlast.op = "find" =>
    IF Len(dlast.name) > MAX_NAME_LEN
    THEN dlast.res = Some_Err("NameTooLong") /\ dlast.reads = 0
    ELSE LET c == FindChain
             k == FirstStop
             last_block == dimage.blocks[c[Len(c)]]
         IN /\ \A i \in 1..Len(dlast.visited) :
                  /\ \E j \in 1..Len(c) : dlast.visited[i] = c[j]
                  /\ Len(c) < MaxChain =>
                       i <= Len(c) /\ dlast.visited[i] = c[i]
            /\ dlast.res.tag = "Ok" =>
                  /\ k # 0 /\ dlast.res.block = c[k]
                  /\ NameMatches(c[k])
                  /\ dlast.res.entry_type = dimage.blocks[c[k]].w508
            /\ k # 0 =>
                  /\ dlast.reads = k
                  /\ dlast.res =
                       IF c[k] = dlast.fb THEN Some_Err("BlockReadError")
                       ELSE IF EntryBlock_parse(dimage.blocks[c[k]]).err # ""
                       THEN Some_Err(EntryBlock_parse(dimage.blocks[c[k]]).err)
                       ELSE IF entry_type_known(dimage.blocks[c[k]].w508)
                       THEN Some_Ok([block |-> c[k],
                                     entry_type |-> dimage.blocks[c[k]].w508])
                       ELSE Some_Err("InvalidSecType")
            /\ (k = 0 /\ Len(c) = 0) =>
                  IF dimage.hash_table[hash_name(dlast.name, dlast.pre.intl)]
                       = 0
                  THEN dlast.res = Some_Err("EntryNotFound")
                       /\ dlast.reads = 0
                  ELSE dlast.res = Some_Err("BlockReadError")
            /\ (k = 0 /\ Len(c) > 0 /\ Len(c) < MaxChain) =>
                  /\ dlast.reads = Len(c) + (IF last_block.w496 = 0 THEN 0
                                             ELSE 1)
                  /\ dlast.res = IF last_block.w496 = 0
                                 THEN Some_Err("EntryNotFound")
                                 ELSE Some_Err("BlockReadError")

\* C13 witness: find passed over an entry with another name and returned
\* the first of two entries with a matching name
C13_Witness ==
  /\ dlast.op = "find" /\ dlast.res.tag = "Ok" /\ dlast.reads = 2
  /\ FirstStop = 2
  /\ \E i \in 3..Len(FindChain) : NameMatches(FindChain[i])

(***************************************************************************)
(* Claims on name hashing and comparison                                   *)
(***************************************************************************)
\* C14: two names that names_equal takes for equal in a mode have the same
\* hash_name in that mode
C14_EqualNamesSameHash ==
  (call.op = "hash_name" /\ names_equal(call.a, call.b, call.intl)) =>
     call.hash_a = call.hash_b

\* C14 witness: two different two-byte spellings, one with a lowercase and
\* one with an uppercase accented letter, are equal and hashed
C14_Witness ==
  /\ call.op = "hash_name" /\ call.intl /\ call.a # call.b
  /\ Len(call.a) = 2 /\ Len(call.b) = 2
  /\ call.a[1] = 224 /\ call.b[1] = 192
  /\ names_equal(call.a, call.b, call.intl)
  /\ call.hash_a = call.hash_b

\* the fold of the reference recurrence: a..z to A..Z and, in international
\* mode only, 224..254 except 247 to the byte minus 32
Fold(c, m) ==
  IF c \in 97..122 THEN c - 32
  ELSE IF m /\ c \in 224..254 /\ c # 247 THEN c - 32
  ELSE c

\* h_k of the reference recurrence: h_0 = len(name),
\* h_k = (h_(k-1) * 13 + fold(byte k)) & 0x7FF
RECURSIVE RefHash(_, _, _)
RefHash(name, m, k) ==
  IF k = 0 THEN Len(name)
  ELSE (RefHash(name, m, k - 1) * 13 + Fold(name[k], m)) % 2048

\* C15: hash_name is the reference recurrence taken modulo 72, for the
\* names of the call and for every one-byte name; it is below 72, and 0 for
\* the empty name
C15_HashName ==
  call.op = "hash_name" =>
     /\ call.hash_a = RefHash(call.a, call.intl, Len(call.a)) % 72
     /\ call.hash_b = RefHash(call.b, call.intl, Len(call.b)) % 72
     /\ call.hash_a \in 0..71 /\ call.hash_b \in 0..71
     /\ call.a = <<>> => call.hash_a = 0
     /\ \A c \in 0..255 :
           hash_name(<<c>>, call.intl) = ((13 + Fold(c, call.intl)) % 2048) % 72

\* C15 witness: a name of a lowercase accented letter and the division sign
\* is hashed in international mode, where its hash is not the ASCII one
C15_Witness ==
  /\ call.op = "hash_name" /\ call.intl /\ call.a = <<224, 247>>
  /\ call.hash_a # hash_name(call.a, FALSE)

\* the names of at most two bytes of NameBytes
ShortNames == UNION {[1..n -> NameBytes] : n \in 0..2}

\* C16: in each mode names_equal is reflexive, symmetric and transitive,
\* false for names of different lengths and true for two empty names
C16_Equivalence ==
  call.op = "names_equal" =>
     /\ names_equal(call.a, call.a, call.intl)
     /\ names_equal(call.b, call.b, call.intl)
     /\ call.eq_ab = call.eq_ba
     /\ Len(call.a) # Len(call.b) => ~call.eq_ab
     /\ (call.a = <<>> /\ call.b = <<>>) => call.eq_ab
     /\ \A c \in ShortNames :
           (call.eq_ab /\ names_equal(call.b, c, call.intl)) =>
              names_equal(call.a, c, call.intl)

\* C16 witness: three different spellings of one two-byte name
C16_Witness ==
  /\ call.op = "names_equal" /\ call.eq_ab /\ call.eq_ba
  /\ Len(call.a) = 2 /\ call.a # call.b
  /\ \E c \in ShortNames :
        c # call.a /\ c # call.b /\ names_equal(call.b, c, call.intl)

(***************************************************************************)
(* Claims on checksums                                                     *)
(***************************************************************************)
\* C17 as stated, for buffers that parse when their checksum is set:
\* giving another value to any word other than the checksum word makes
\* the parser return ChecksumMismatch
C17_AsStated ==
  (call.op = "parse" /\ call.sealed /\ call.ok_at_seal
   /\ call.changed # NoId) => call.res = "ChecksumMismatch"

\* C17: a buffer whose checksum word is set to normal_sum parses when it
\* has the type tag of its parser (and, for RootBlock, the secondary type
\* ST_ROOT), and fails with InvalidBlockType or InvalidSecType when it has
\* not; after another value is given to one other word the parser fails:
\* with InvalidBlockType when the type tag is now wrong, with
\* InvalidSecType when the secondary type of a root block is, and with
\* ChecksumMismatch otherwise
C17_RoundTrip ==
  (call.op = "parse" /\ call.sealed) =>
    LET tag_ok == call.buf[0] = TagOf(call.kind)
        sec_ok == call.kind = "RootBlock" => call.buf[127] = ST_ROOT
    IN call.res =
         IF ~tag_ok THEN "InvalidBlockType"
         ELSE IF ~sec_ok THEN "InvalidSecType"
         ELSE IF call.changed # NoId THEN "ChecksumMismatch"
         ELSE ""

\* C17 witness: a buffer with words that make the sum wrap parsed after
\* its checksum was set, then a table word was given another value and the
\* parser returned ChecksumMismatch
C17_Witness ==
  /\ call.op = "parse" /\ call.sealed /\ call.ok_at_seal
  /\ call.changed = 25 /\ call.res = "ChecksumMismatch"
  /\ call.buf[127] = I32_MIN

(***************************************************************************)
(* Claims on the boot block and on opening a volume                        *)
(***************************************************************************)
\* the first three bytes of the boot block are "DOS"
HasDos == 
  /\ WordByte(call.boot[0], 0) = 68
  /\ WordByte(call.boot[0], 1) = 79
  /\ WordByte(call.boot[0], 2) = 83

\* byte 12 of the boot block is not zero
HasCode == WordByte(call.boot[3], 0) # 0

\* C18: BootBlock::parse accepts a boot block exactly when its first three
\* bytes are "DOS" and, if byte 12 is not zero, the word at offset 4 is
\* boot_sum of the block; it returns InvalidDosType for another signature,
\* whatever the checksum, and ChecksumMismatch for a wrong checksum with
\* byte 12 not zero; with byte 12 zero the checksum word is not looked at
C18_BootAccept ==
  call.op = "parse" =>
    /\ call.res = "" <=>
         (HasDos /\ (HasCode => call.boot[1] = boot_sum(call.boot)))
    /\ ~HasDos => call.res = "InvalidDosType"
    /\ (HasDos /\ HasCode /\ call.boot[1] # boot_sum(call.boot)) =>
         call.res = "ChecksumMismatch"
    /\ (HasDos /\ ~HasCode) => call.res = ""

\* C18 witness: a boot block with boot code, a wrong checksum and a wrong
\* signature was rejected with InvalidDosType
C18_Witness ==
  /\ call.op = "parse" /\ call.res = "InvalidDosType"
  /\ HasCode /\ call.boot[1] # boot_sum(call.boot)

\* the block number with_size takes for the root block
RootNumber ==
  IF call.boot[2] # 0 THEN call.boot[2] ELSE u32_half(call.total)

\* C19: with_size fails with BlockReadError when block 0 or 1 cannot be
\* read and with the error of BootBlock::parse when the boot block is not
\* accepted; else it takes the boot block's root pointer when it is not
\* zero and total_blocks / 2 when it is, returns BlockOutOfRange after the
\* two boot reads when that number is not below total_blocks, and else
\* reads that block: root_block() is that number when it decodes as a root
\* block, and the read or decoding error is returned when it does not
C19_WithSize ==
  call.op = "with_size" =>
    IF call.fb \in {0, 1}
    THEN call.res = "BlockReadError" /\ call.reads = call.fb + 1
    ELSE IF ~HasDos
    THEN call.res = "InvalidDosType" /\ call.reads = 2
    ELSE IF HasCode /\ call.boot[1] # boot_sum(call.boot)
    THEN call.res = "ChecksumMismatch" /\ call.reads = 2
    ELSE IF ~u32_lt(RootNumber, call.total)
    THEN call.res = "BlockOutOfRange" /\ call.reads = 2
    ELSE /\ call.reads = 3
         /\ IF RootNumber \notin DOMAIN Device(call.boot).blocks
               \/ RootNumber = call.fb
            THEN call.res = "BlockReadError"
            ELSE LET b == Device(call.boot).blocks[RootNumber]
                 IN IF b.w0 # T_HEADER THEN call.res = "InvalidBlockType"
                    ELSE IF b.w508 # ST_ROOT THEN call.res = "InvalidSecType"
                    ELSE IF b.w20 # normal_sum(b)
                    THEN call.res = "ChecksumMismatch"
                    ELSE call.res = "" /\ call.r.root_block = RootNumber

\* C19 witness: a root pointer equal to total_blocks was refused with
\* BlockOutOfRange although a root block is stored there
C19_Witness ==
  /\ call.op = "with_size" /\ call.res = "BlockOutOfRange"
  /\ call.reads = 2 /\ call.boot[2] = call.total
  /\ call.total \in DOMAIN VolumeBlocks
  /\ RootBlock_parse(VolumeBlocks[call.total]).err = ""

(***************************************************************************)
(* Claims on path lookup                                                   *)
(***************************************************************************)
\* the path without its leading, trailing and repeated slashes; `pending`
\* says that a slash was passed since the last byte that was kept
RECURSIVE Squeeze(_, _, _, _)
Squeeze(path, i, pending, acc) ==
  IF i > Len(path) THEN acc
  ELSE IF path[i] = 47 THEN Squeeze(path, i + 1, acc # <<>>, acc)
  ELSE Squeeze(path, i + 1, FALSE,
               (IF pending THEN Append(acc, 47) ELSE acc) \o <<path[i]>>)

\* C20: find_path gives for a path what it gives for the path without its
\* leading, trailing and repeated slashes, with the same device reads and
\* directory lookups; for a path without a byte other than the slash it
\* returns EntryNotFound without any directory lookup or device read
C20_EmptyComponents ==
  call.op = "find_path" =>
    LET q == Squeeze(call.path, 1, FALSE, <<>>)
        c == find_path(Device(call.boot), call.fb, call.r, q)
    IN /\ call.res = c.res
       /\ call.reads = c.reads
       /\ call.lookups = c.lookups
       /\ q = <<>> =>
             /\ call.res = Some_Err("EntryNotFound")
             /\ call.lookups = 0 /\ call.reads = 0

\* C20 witness: a path with a doubled slash found the file in the
\* subdirectory
C20_Witness ==
  /\ call.op = "find_path" /\ call.path = <<65, 47, 47, 66>>
  /\ call.res.tag = "Ok" /\ call.res.block = 13 /\ call.lookups = 2

(***************************************************************************)
(* Claims on the directories a path goes through                           *)
(***************************************************************************)
\* the components of the path that are not empty
Components(path) ==
  SelectSeq(split_from(path, 1, <<>>, <<>>), LAMBDA c : c # <<>>)

\* the lookup that takes every component in the directory the component
\* before it names (the root for the first one), whatever the entry found
\* there is: the result of the last lookup, or the first failure
RECURSIVE Nested(_, _, _, _, _)
Nested(dev, r, comps, k, dir_block) ==
  LET e == find_entry(dev, NoFail, r, dir_block, comps[k])
  IN IF e.res.tag # "Ok" \/ k = Len(comps) THEN e.res
     ELSE Nested(dev, r, comps, k + 1, e.res.block)

\* C26: with the device working, find_path returns for a path with
\* components c1/.../cn the entry that looking up each component in the
\* directory named by the one before it gives, and fails when a component
\* before the last names an entry that is not a directory
C26_ComponentsNest ==
  (call.op = "find_path" /\ call.fb = NoFail
     /\ Components(call.path) # <<>>) =>
     LET ref == Nested(Device(call.boot), call.r, Components(call.path), 1,
                       call.r.root_block)
     IN /\ call.res.tag = "Ok" => call.res = ref
        /\ ref.tag # "Ok" => call.res.tag # "Ok"

(***************************************************************************)
(* Claims on dates                                                         *)
(***************************************************************************)
\* C22: the Unix timestamp of a date is days * 86400 + mins * 60 +
\* ticks / 50 + 252460800, and the exported AMIGA_EPOCH_OFFSET is that
\* offset of 2922 days
C22_EpochOffset ==
  call.op = "to_unix_timestamp" =>
     /\ call.res = call.date.days * 86400 + call.date.mins * 60
                   + i64_div(call.date.ticks, 50) + 252460800
     /\ AMIGA_EPOCH_OFFSET = 2922 * 86400
     /\ call.res = call.date.days * 86400 + call.date.mins * 60
                   + i64_div(call.date.ticks, 50) + AMIGA_EPOCH_OFFSET

(***************************************************************************)
(* Claims on the vectorized checksums                                      *)
(***************************************************************************)
\* the sum of the buffer's written words when none is left out, as a
\* reference for "the word was skipped"
WordsWritten == {i \in DOMAIN call.buf : call.buf[i] # 0}

\* C25: normal_sum_slice, boot_sum and bitmap_sum give the same word with
\* and without the simd feature, for every buffer length in words and
\* every checksum word; a value in the skipped word (the checksum word,
\* word 1 of the boot block, word 0 of the bitmap block) changes neither
\* result
C25_SimdEqualsScalar ==
  call.op = "sum" =>
     /\ call.simd = call.scalar
     /\ LET skip == IF call.fn = "normal_sum_slice" THEN call.off \div 4
                    ELSE IF call.fn = "boot_sum" THEN 1 ELSE 0
        IN WordsWritten \subseteq {skip} =>
              call.simd = (IF call.fn = "boot_sum" THEN 0 - 1 ELSE 0)

\* C25 witness: a buffer of 7 words, one group and three remaining words,
\* with a value in the checksum word among the remaining ones and one in
\* another word
C25_Witness ==
  /\ call.op = "sum" /\ call.fn = "normal_sum_slice" /\ call.len = 7
  /\ call.off = 20 /\ call.buf[5] # 0 /\ call.buf[6] # 0
  /\ call.simd = wrapping_neg(call.buf[6])

(***************************************************************************)
(* Claims on the variable-block-size reader                                *)
(***************************************************************************)
\* the words of the num sectors from start on, when all of them can be read
SectorsOf(start, num) ==
  [k \in 0..(num * 128 - 1) |-> call.sectors[start + k \div 128][k % 128]]

Readable(start, num) ==
  \A i \in 0..(num - 1) :
     (start + i) \in DOMAIN call.sectors /\ start + i # call.fb

\* the boot block at the boot sector bs passes: "DOS", the FFS bit, and
\* with a byte 12 other than 0 the boot checksum
BootPasses(bs) ==
  /\ Readable(bs, 2)
  /\ LET b == SectorsOf(bs, 2)
     IN /\ WordByte(b[0], 0) = 68 /\ WordByte(b[0], 1) = 79
        /\ WordByte(b[0], 2) = 83
        /\ WordByte(b[0], 3) % 2 = 1
        /\ WordByte(b[3], 0) # 0 => b[1] = boot_sum(b)

\* the candidate root block of the boot sector bs for the block size
\* 512 << lg passes: HEADER, ROOT in the last word, a hash table size other
\* than 0, the checksum over the whole block
RootPasses(bs, lg) ==
  /\ BootPasses(bs)
  /\ LET root == SectorsOf(bs, 2)[2]
     IN /\ Readable(root * 2 ^ lg, 2 ^ lg)
        /\ LET b == SectorsOf(root * 2 ^ lg, 2 ^ lg)
           IN /\ b[0] = T_HEADER /\ b[128 * 2 ^ lg - 1] = ST_ROOT
              /\ b[3] # 0
              /\ b[5] = wrapping_neg(SumSkip(b, 5, 0, 128 * 2 ^ lg - 1))

Combinations == (0..1) \X (0..4)

Before(c, d) == c[1] < d[1] \/ (c[1] = d[1] /\ c[2] < d[2])

\* C21: new accepts the first combination of boot sector (0, then 1) and
\* block size (512, ..., 8192) whose boot block and candidate root block
\* pass, and gives InvalidDosType when none does; an OFS boot block is
\* never accepted
C21_Probe ==
  call.op = "new" =>
     LET passing == {c \in Combinations : RootPasses(c[1], c[2])}
     IN /\ passing = {} <=> call.err = "InvalidDosType"
        /\ passing # {} <=> call.err = ""
        /\ call.err = "" =>
             LET c == <<call.r.boot_sector, call.r.log_blocksize>>
             IN /\ c \in passing
                /\ \A d \in passing : ~Before(d, c)
                /\ call.r.block_size = 512 * 2 ^ c[2]
                /\ call.r.root_block = SectorsOf(c[1], 2)[2]
                /\ call.r.hash_table_size
                     = SectorsOf(call.r.root_block * 2 ^ c[2], 1)[3]
                /\ WordByte(SectorsOf(c[1], 2)[0], 3) % 2 = 1

\* C21 witness: the boot block of sector 0 and the block size 512 did not
\* pass, a later combination was accepted
C21_Witness ==
  /\ call.op = "new" /\ call.err = ""
  /\ call.r.boot_sector = 1 \/ call.r.log_blocksize >= 1

\* C24: for every hash table size the probe accepts, next never indexes
\* the hash table copy outside its bounds: no call of next panics
C24_TableInBounds == call.op = "next" => call.res.tag # "Panic"

\* the 512-byte block at the sector, as the fixed-size parsers see it
FixedBlock(sector) == ToBlock(call.sectors[sector])

\* C28: with 512-byte blocks the variable-size reader reports the disk
\* name RootBlock::parse reports for the root block, and for every entry
\* that EntryBlock::parse decodes the same name, size, parent, secondary
\* type and next block on the chain
C28_SameFields ==
  /\ (call.op = "new" /\ call.err = "" /\ call.r.block_size = BLOCK_SIZE
        /\ RootBlock_parse(FixedBlock(call.r.root_block)).err = "") =>
        call.r.disk_name = RootBlock_disk_name(FixedBlock(call.r.root_block))
  /\ (call.op = "next" /\ call.res.tag = "Ok"
        /\ call.r.block_size = BLOCK_SIZE
        /\ EntryBlock_parse(FixedBlock(call.res.entry.block)).err = "") =>
        LET e == call.res.entry
            f == EntryBlock_parse(FixedBlock(e.block))
        IN /\ e.name = f.name
           /\ e.size = f.byte_size
           /\ e.parent = call.sectors[e.block][125]
           /\ e.entry_type = f.sec_type
           /\ call.it.current_chain = f.next_same_hash

(***************************************************************************)
(* Claims on the order of the checks of the parsers                        *)
(***************************************************************************)
\* the checksum word of the buffer is the one normal_sum gives
SumFits == call.buf[5] = normal_sum_slice_scalar(call.buf, 20)

\* [0u8; 512] as words
ZeroWords == [i \in 0..(BLOCK_SIZE \div 4 - 1) |-> 0]

\* C23: a parser returns InvalidBlockType when the type tag is not its own,
\* whatever the secondary type and the checksum are; RootBlock::parse
\* returns InvalidSecType when the tag is T_HEADER and the secondary type
\* is not ST_ROOT, whatever the checksum is; ChecksumMismatch is returned
\* only when the tags fit and the checksum does not; the all-zero buffer
\* fails every parser with InvalidBlockType
C23_Precedence ==
  /\ call.op = "parse" =>
       LET tag_ok == call.buf[0] = TagOf(call.kind)
           sec_ok == call.kind = "RootBlock" => call.buf[127] = ST_ROOT
       IN /\ ~tag_ok => call.res = "InvalidBlockType"
          /\ (tag_ok /\ ~sec_ok) => call.res = "InvalidSecType"
          /\ (tag_ok /\ sec_ok /\ ~SumFits) => call.res = "ChecksumMismatch"
          /\ (tag_ok /\ sec_ok /\ SumFits) => call.res = ""
          /\ call.buf = ZeroWords => call.res = "InvalidBlockType"
  /\ call.op = "new" =>
       \A kind \in Kinds : ParseErr(kind, ZeroWords) = "InvalidBlockType"

\* C23 witness: a root buffer with a wrong secondary type and a wrong
\* checksum under the right type tag was rejected with InvalidSecType
C23_Witness ==
  /\ call.op = "parse" /\ call.kind = "RootBlock"
  /\ call.buf[0] = T_HEADER /\ call.buf[127] # ST_ROOT /\ ~SumFits
  /\ call.res = "InvalidSecType"

====
